---- MODULE Spec2Model ----
(***************************************************************************)
(* Orchestration layer of the workspace RAG API (src/services, src/core,   *)
(* src/storage, src/repos): the single-slot engine-handle cache, the       *)
(* in-memory document mapping, the on-disk workspace tree, the metadata    *)
(* store, and the request handlers that act on them.  Handlers are         *)
(* coroutines on one event loop: a handler runs atomically from one real   *)
(* suspension point (an awaited engine / storage network call) to the      *)
(* next, so every action below is one such run-to-suspension segment.      *)
(***************************************************************************)
EXTENDS Integers, Sequences, FiniteSets, TLC

\* ---------------------------------------------------------------- bounds
\* engine handles that may be constructed in one run
MaxHandles == 3
\* document ids that may be generated in one run
MaxDocs == 2
\* files carried by one upload / chat request
MaxFiles == 2
\* attachments carried by one chat request
MaxAttachments == 1
\* requests that may arrive in one run
MaxRequests == 4
\* requests that may arrive in one run in which any two requests overlap
MaxOverlapping == 3
\* requests that may arrive in one run of a pair of overlapping requests
MaxPair == 2

\* ------------------------------------------------------------- universes
Procs == {1, 2}
WsSeq == <<"A", "B">>
WS == {WsSeq[i] : i \in 1..Len(WsSeq)}
DocIds == 1..MaxDocs
NoWs == "none"
None == [id |-> 0, ws |-> NoWs]
NoDoc == 0
Cats == <<"vector", "graph", "kv", "doc_status">>
Beh == {"absent", "ok", "raise"}

VARIABLES
    db,                     \* ids with a row in the metadata store
    touched,                \* ids already generated or named by a request
    disk,                   \* workspace dir -> (document dir -> file name)
    workspace_docs,         \* workspace id -> (doc id -> file path)
    current_workspace_id,   \* cache slot: workspace id
    current_workspace_rag,  \* cache slot: engine handle
    nextHandle,             \* engine handles constructed so far
    nextDoc,                \* document ids generated so far
    req,                    \* per request slot: position and locals
    arrivals,               \* requests received so far
    trial,                  \* one direct call of a remote-cleanup function
    removed                 \* history: document ids a completed delete removed

vars == <<db, touched, disk, workspace_docs, current_workspace_id,
          current_workspace_rag, nextHandle, nextDoc, req, arrivals, trial, removed>>

\* ------------------------------------------------------- generic helpers
EmptyMap == [x \in {} |-> x]

Restrict(f, S) == [x \in S |-> f[x]]

Put(f, k, v) == [x \in (DOMAIN f) \cup {k} |-> IF x = k THEN v ELSE f[x]]

Drop(f, k) == Restrict(f, (DOMAIN f) \ {k})

\* "{root}/{ws}/uploads/{doc}/{filename}"
Path(w, d, f) == <<w, d, f>>

basename(path) == path[3]

\* ------------------------------------------------- core/state.py helpers
get_workspace_docs(m, w) == IF w \in DOMAIN m THEN m[w] ELSE EmptyMap

\* faulty variant: the workspace's mapping is started afresh on every add
add_workspace_doc_reset(m, w, d, path) == Put(m, w, Put(EmptyMap, d, path))

add_workspace_doc(m, w, d, path) ==
    LET m1 == IF w \notin DOMAIN m THEN Put(m, w, EmptyMap) ELSE m
    IN  Put(m1, w, Put(m1[w], d, path))

\* faulty variant: the workspace's mapping is emptied
remove_workspace_doc_all(m, w, d) ==
    IF w \in DOMAIN m /\ d \in DOMAIN m[w] THEN Put(m, w, EmptyMap) ELSE m

remove_workspace_doc(m, w, d) ==
    IF w \in DOMAIN m /\ d \in DOMAIN m[w]
    THEN Put(m, w, Drop(m[w], d))
    ELSE m

remove_workspace_docs(m, w) == IF w \in DOMAIN m THEN Drop(m, w) ELSE m

init_workspace_docs(m, w) == Put(m, w, EmptyMap)

get_workspace_doc_count(m, w) ==
    Cardinality(DOMAIN (IF w \in DOMAIN m THEN m[w] ELSE EmptyMap))

\* faulty variant: the slot is never consulted, every request rebuilds
get_current_workspace_rag_never(cid, crag, w) == None

get_current_workspace_rag(cid, crag, w) ==
    IF cid = w /\ crag # None THEN crag ELSE None

\* faulty variant: the handle is stored, the slot's workspace id is not
set_current_workspace_rag_stale_id(w, rag) == [id |-> current_workspace_id, rag |-> rag]

\* faulty variant: an occupied slot is never overwritten
set_current_workspace_rag_if_empty(w, rag) ==
    IF current_workspace_rag # None
    THEN [id |-> current_workspace_id, rag |-> current_workspace_rag]
    ELSE [id |-> w, rag |-> rag]

set_current_workspace_rag(w, rag) == [id |-> w, rag |-> rag]

\* faulty variant: the handle is dropped, the slot's workspace id is kept
clear_current_workspace_handle_only == [id |-> current_workspace_id, rag |-> None]

clear_current_workspace == [id |-> NoWs, rag |-> None]

\* ------------------------------------------- app_init/lightrag_boot.py
ensure_workspace_dirs(dk, w) ==
    IF w \in DOMAIN dk THEN dk ELSE Put(dk, w, EmptyMap)

\* faulty variant: the tree is left on disk
rmtree_workspace_skipped(dk, w) == dk

\* shutil.rmtree(workspace_dir)
rmtree_workspace(dk, w) == Drop(dk, w)

\* shutil.rmtree(uploads/doc_id) when it exists
rmtree_doc(dk, w, d) ==
    IF w \in DOMAIN dk /\ d \in DOMAIN dk[w] THEN Put(dk, w, Drop(dk[w], d)) ELSE dk

\* ------------------------------------------------------- repos/workspaces
\* faulty variant: every id is taken to have a row
db_get_workspace_unchecked(rows, w) == TRUE

db_get_workspace(rows, w) == w \in rows

\* delete().eq("id", w).execute(), then (res.count or 0) > 0: the store
\* removes the row; its response carries the number of rows removed
\* ("count") or no count at all ("nocount")
db_delete_workspace(rows, w, reply) ==
    [rows |-> rows \ {w}, deleted |-> reply = "count" /\ w \in rows]

\* --------------------------------------------- storage/delete_strategies
NoError == "null"

\* what one storage category of the engine handle exposes: the capability on
\* the storage object ("primary") and the handle-level fallback method
CatCaps == [primary : Beh, fallback : Beh]

\* the if / elif probe of one category: which capability is picked
ProbeDocument(c) ==
    IF c.primary # "absent" THEN "primary"
    ELSE IF c.fallback # "absent" THEN "fallback"
    ELSE "none"

\* delete_workspace_data probes the storage object's method only
ProbeWorkspace(c) == IF c.primary # "absent" THEN "primary" ELSE "none"

\* faulty variant: the awaited call is not inside a try block
TryCategoryUnguarded(c, pick) ==
    IF pick = "none"
    THEN [success |-> FALSE, error |-> NoError, calls |-> 0, propagated |-> FALSE]
    ELSE IF c[pick] = "raise"
    THEN [success |-> FALSE, error |-> NoError, calls |-> 1, propagated |-> TRUE]
    ELSE [success |-> TRUE, error |-> NoError, calls |-> 1, propagated |-> FALSE]

\* faulty variant: the success flag is set before the awaited call
TryCategorySuccessFirst(c, pick) ==
    IF pick = "none"
    THEN [success |-> FALSE, error |-> NoError, calls |-> 0, propagated |-> FALSE]
    ELSE IF c[pick] = "raise"
    THEN [success |-> TRUE, error |-> "error", calls |-> 1, propagated |-> FALSE]
    ELSE [success |-> TRUE, error |-> NoError, calls |-> 1, propagated |-> FALSE]

\* one try / except Exception block around the probe and its awaited call
TryCategory(c, pick) ==
    IF pick = "none"
    THEN [success |-> FALSE, error |-> NoError, calls |-> 0, propagated |-> FALSE]
    ELSE IF c[pick] = "raise"
    THEN [success |-> FALSE, error |-> "error", calls |-> 1, propagated |-> FALSE]
    ELSE [success |-> TRUE, error |-> NoError, calls |-> 1, propagated |-> FALSE]

\* results dict as first built: every category {"success": False, "error": None}
InitialResults ==
    [results |-> [i \in 1..4 |-> [success |-> FALSE, error |-> NoError]],
     calls |-> [i \in 1..4 |-> 0],
     propagated |-> FALSE]

Record(acc, i, t) ==
    [results |-> [acc.results EXCEPT ![i] = [success |-> t.success, error |-> t.error]],
     calls |-> [acc.calls EXCEPT ![i] = t.calls],
     propagated |-> t.propagated]

\* the four blocks in program order; a propagating exception would skip the rest
RECURSIVE delete_blocks(_, _, _, _)
delete_blocks(kind, caps, i, acc) ==
    IF i > 4 \/ acc.propagated THEN acc
    ELSE LET pick == IF kind = "document" THEN ProbeDocument(caps[i])
                     ELSE ProbeWorkspace(caps[i])
         IN  delete_blocks(kind, caps, i + 1, Record(acc, i, TryCategory(caps[i], pick)))

delete_document_everywhere(caps) == delete_blocks("document", caps, 1, InitialResults)

delete_workspace_data(caps) == delete_blocks("workspace", caps, 1, InitialResults)

\* successful_deletions, as summed for the log line
successful_deletions(res) == Cardinality({i \in 1..4 : res.results[i].success})

\* engine handles met by the request handlers: per category a capability that
\* is absent, returns, or raises
SimpleCaps == [1..4 -> [primary : Beh, fallback : {"absent"}]]

AllAbsent == [i \in 1..4 |-> [primary |-> "absent", fallback |-> "absent"]]

NoDeletion == 0 - 1

\* a direct call of one of the two functions on a handle with the given
\* capabilities
Trial(kind, caps) == [kind |-> kind, caps |-> caps, out |-> InitialResults, done |-> FALSE]

NoTrial == [Trial("none", AllAbsent) EXCEPT !.done = TRUE]

\* -------------------------------------------------------- request slots
NoFile == [id |-> NoDoc, filename |-> ""]

\* the response body: the keys a handler may set (deletion: a per-category
\* deletion result carried in the body)
NoResp == [status |-> 0, ok |-> FALSE, workspace |-> NoWs, documents |-> <<>>,
           listing |-> {}, answer |-> FALSE, deletion |-> NoDeletion, detail |-> <<>>]

Resp(status, ok) == [NoResp EXCEPT !.status = status, !.ok = ok]

\* what a chat request sent: its content type, its question (Absent: no such
\* field) and the file parts it carried
Absent == "<absent>"

NoBody == [ct |-> "none", question |-> Absent, sent |-> <<>>]

Idle == [pc |-> "idle", op |-> "none", ws |-> NoWs, doc |-> NoDoc, files |-> <<>>,
         cur |-> NoFile, rag |-> None, out |-> <<>>,
         deletion |-> NoDeletion, log |-> <<>>, db_deleted |-> "none",
         resp |-> NoResp, body |-> NoBody]

Request(op, w, d, files) ==
    [Idle EXCEPT !.pc = "start", !.op = op, !.ws = w, !.doc = d, !.files = files]

\* the handler returns (or raises an HTTPException that the framework renders)
Finish(r, resp) ==
    [r EXCEPT !.pc = "done", !.resp = resp, !.files = <<>>, !.cur = NoFile, !.out = <<>>]

\* the shared state a handler segment reads and writes
Sh == [db |-> db, disk |-> disk, docs |-> workspace_docs,
       cid |-> current_workspace_id, crag |-> current_workspace_rag,
       nh |-> nextHandle, nd |-> nextDoc, rm |-> removed]

Commit(p, o) ==
    /\ db' = o.s.db
    /\ disk' = o.s.disk
    /\ workspace_docs' = o.s.docs
    /\ current_workspace_id' = o.s.cid
    /\ current_workspace_rag' = o.s.crag
    /\ nextHandle' = o.s.nh
    /\ nextDoc' = o.s.nd
    /\ req' = [req EXCEPT ![p] = o.r]
    /\ trial' = trial
    /\ removed' = o.s.rm

\* ------------------------------------------ services/document_service.py
\* save_uploaded_file: new uuid, makedirs(uploads/doc_id), write, map.  With
\* an empty file name dest_path is the directory itself and open() raises:
\* the new directory stays behind, empty (no file name under the id), and
\* nothing is mapped
save_uploaded_file(s, w, f) ==
    LET d == s.nd + 1
        dk == Put(ensure_workspace_dirs(s.disk, w), w,
                  Put(ensure_workspace_dirs(s.disk, w)[w], d, f))
    IN  IF f = ""
        THEN [s |-> [s EXCEPT !.nd = d, !.disk = dk],
              info |-> [id |-> d, filename |-> f], raised |-> TRUE]
        ELSE [s |-> [s EXCEPT !.nd = d, !.disk = dk,
                              !.docs = add_workspace_doc(s.docs, w, d, Path(w, d, f))],
              info |-> [id |-> d, filename |-> f], raised |-> FALSE]

\* process_uploaded_files, loop head: save the next file, then await the
\* engine; an exception of the save ends the request (500: caught by the
\* chat handler, left to the framework by the upload handler)
\* faulty variant: the loop ends at the first file the engine failed on
IngestNextUnlessFailed(s, r) ==
    LET sv == save_uploaded_file(s, r.ws, Head(r.files))
    IN  IF r.out # <<>> /\ r.out[Len(r.out)].processing_status = "error"
        THEN [s |-> s, r |-> Finish(r, [Resp(200, TRUE) EXCEPT !.documents = r.out])]
        ELSE IF sv.raised
        THEN [s |-> sv.s, r |-> Finish(r, Resp(500, FALSE))]
        ELSE [s |-> sv.s,
              r |-> [r EXCEPT !.files = Tail(r.files), !.cur = sv.info, !.pc = "process"]]

IngestNext(s, r) ==
    LET sv == save_uploaded_file(s, r.ws, Head(r.files))
    IN  IF sv.raised
        THEN [s |-> sv.s, r |-> Finish(r, Resp(500, FALSE))]
        ELSE [s |-> sv.s,
              r |-> [r EXCEPT !.files = Tail(r.files), !.cur = sv.info, !.pc = "process"]]

\* faulty variant: a failed ingestion undoes the save
process_document_with_rag_rollback(s, w, info, engine_ok) ==
    [s |-> IF engine_ok THEN s
           ELSE [s EXCEPT !.disk = rmtree_doc(s.disk, w, info.id),
                          !.docs = remove_workspace_doc(s.docs, w, info.id)],
     status |-> IF engine_ok THEN "success" ELSE "error", doc_id |-> info.id]

\* process_document_with_rag after the awaited engine call returned or raised:
\* the exception is caught and reported, nothing is undone
process_document_with_rag(s, w, info, engine_ok) ==
    [s |-> s, status |-> IF engine_ok THEN "success" ELSE "error", doc_id |-> info.id]

\* process_uploaded_files, step 3: file info merged with the processing result
doc_result(info, processing_result) ==
    [id |-> info.id, filename |-> info.filename,
     processing_status |-> processing_result.status]

list_documents(m, w) ==
    {[id |-> d, path |-> get_workspace_docs(m, w)[d],
      filename |-> basename(get_workspace_docs(m, w)[d])] :
        d \in DOMAIN get_workspace_docs(m, w)}

\* faulty variant: local cleanup only when some remote cleanup succeeded
LocalDocCleanupIfPurged(s, r, res) ==
    IF res.propagated \/ successful_deletions(res) = 0
    THEN [s |-> s, r |-> Finish(r, Resp(500, FALSE))]
    ELSE [s |-> [s EXCEPT !.disk = rmtree_doc(ensure_workspace_dirs(s.disk, r.ws), r.ws, r.doc),
                          !.docs = remove_workspace_doc(s.docs, r.ws, r.doc),
                          !.rm = @ \cup {r.doc}],
          r |-> Finish([r EXCEPT !.deletion = successful_deletions(res)], Resp(200, TRUE))]

\* faulty variant: the directory is removed without looking whether it is
\* there; a missing one raises and the request ends 500
LocalDocCleanupUnguarded(s, r, res) ==
    IF res.propagated \/ ~(r.ws \in DOMAIN s.disk /\ r.doc \in DOMAIN s.disk[r.ws])
    THEN [s |-> s, r |-> Finish(r, Resp(500, FALSE))]
    ELSE [s |-> [s EXCEPT !.disk = rmtree_doc(ensure_workspace_dirs(s.disk, r.ws), r.ws, r.doc),
                          !.docs = remove_workspace_doc(s.docs, r.ws, r.doc),
                          !.rm = @ \cup {r.doc}],
          r |-> Finish([r EXCEPT !.deletion = successful_deletions(res)], Resp(200, TRUE))]

\* delete_workspace_document_service after the remote cleanup returned `res`
LocalDocCleanup(s, r, res) ==
    IF res.propagated
    THEN [s |-> s, r |-> Finish(r, Resp(500, FALSE))]
    ELSE [s |-> [s EXCEPT !.disk = rmtree_doc(ensure_workspace_dirs(s.disk, r.ws), r.ws, r.doc),
                          !.docs = remove_workspace_doc(s.docs, r.ws, r.doc),
                          !.rm = @ \cup {r.doc}],
          r |-> Finish([r EXCEPT !.deletion = successful_deletions(res)], Resp(200, TRUE))]

\* ----------------------------------------- services/workspace_service.py
rebuild_workspace_docs_mapping(s, w) ==
    LET dk == ensure_workspace_dirs(s.disk, w)
    IN  [s EXCEPT !.disk = dk,
                  !.docs = Put(s.docs, w, [d \in {x \in DOMAIN dk[w] : dk[w][x] # ""}
                                             |-> Path(w, d, dk[w][d])])]

\* delete_workspace_service after the remote purge returned `res`: the
\* statements in program order, each logged as it is performed
\* faulty variant: the slot is left alone
ClearCacheNever(o, w) == [s |-> o.s, log |-> Append(o.log, "cache")]

\* faulty variant: the slot is cleared whatever it holds
ClearCacheUnkeyed(o, w) ==
    [s |-> [o.s EXCEPT !.cid = clear_current_workspace.id,
                       !.crag = clear_current_workspace.rag],
     log |-> Append(o.log, "cache")]

ClearCacheIfCurrent(o, w) ==
    IF o.s.cid = w
    THEN [s |-> [o.s EXCEPT !.cid = clear_current_workspace.id,
                            !.crag = clear_current_workspace.rag],
          log |-> Append(o.log, "cache")]
    ELSE [s |-> o.s, log |-> Append(o.log, "cache")]

DropMapping(o, w) ==
    [s |-> [o.s EXCEPT !.docs = remove_workspace_docs(o.s.docs, w),
                       !.rm = @ \cup DOMAIN get_workspace_docs(o.s.docs, w)],
     log |-> Append(o.log, "mapping")]

RemoveTree(o, w) ==
    [s |-> [o.s EXCEPT !.disk = rmtree_workspace(ensure_workspace_dirs(o.s.disk, w), w)],
     log |-> Append(o.log, "directory")]

\* the inner try around db_delete_workspace: `reply` is "raise" when the
\* store call raises
DeleteRow(o, w, reply) ==
    [s |-> [o.s EXCEPT !.db = IF reply = "raise" THEN o.s.db
                              ELSE db_delete_workspace(o.s.db, w, reply).rows],
     log |-> Append(o.log, "row"),
     db_deleted |-> IF reply = "raise" THEN "raised"
                    ELSE IF db_delete_workspace(o.s.db, w, reply).deleted THEN "yes"
                    ELSE "no"]

\* faulty variant: no inner try block, a raising row delete fails the request
LocalWorkspaceCleanupStrict(s, r, res, del_ok) ==
    IF res.propagated
    THEN [s |-> s, r |-> Finish(r, Resp(500, FALSE))]
    ELSE LET o0 == [s |-> s, log |-> <<"purge">>]
             o4 == DeleteRow(RemoveTree(DropMapping(ClearCacheIfCurrent(o0, r.ws), r.ws), r.ws),
                             r.ws, del_ok)
         IN  [s |-> o4.s,
              r |-> Finish([r EXCEPT !.deletion = successful_deletions(res), !.log = o4.log,
                                     !.db_deleted = o4.db_deleted],
                           IF del_ok = "raise" THEN Resp(500, FALSE) ELSE Resp(200, TRUE))]

LocalWorkspaceCleanup(s, r, res, del_ok) ==
    IF res.propagated
    THEN [s |-> s, r |-> Finish(r, Resp(500, FALSE))]
    ELSE LET o0 == [s |-> s, log |-> <<"purge">>]
             o4 == DeleteRow(RemoveTree(DropMapping(ClearCacheIfCurrent(o0, r.ws), r.ws), r.ws),
                             r.ws, del_ok)
         IN  [s |-> o4.s,
              r |-> Finish([r EXCEPT !.deletion = successful_deletions(res), !.log = o4.log,
                                     !.db_deleted = o4.db_deleted],
                           Resp(200, TRUE))]

\* what follows a successful get_or_create_workspace_rag in each handler, up
\* to the handler's next suspension point.  `suspend`: the remote cleanup
\* awaits at least one capability; otherwise the handle exposes none and the
\* handler runs on without yielding
AfterRag(s, r, suspend, del_ok) ==
    CASE r.op = "create" ->
            [s |-> rebuild_workspace_docs_mapping(s, r.ws),
             r |-> Finish(r, [Resp(200, TRUE) EXCEPT !.workspace = r.ws])]
      [] r.op = "detail" ->
            [s |-> s, r |-> Finish(r, [Resp(200, TRUE) EXCEPT !.workspace = r.ws])]
      [] r.op = "delete_workspace" ->
            IF suspend THEN [s |-> s, r |-> [r EXCEPT !.pc = "purge"]]
            ELSE LocalWorkspaceCleanup(s, r, delete_workspace_data(AllAbsent), del_ok)
      [] r.op = "delete_document" ->
            IF suspend THEN [s |-> s, r |-> [r EXCEPT !.pc = "cleanup"]]
            ELSE LocalDocCleanup(s, r, delete_document_everywhere(AllAbsent))
      [] r.op = "upload" ->
            IngestNext([s EXCEPT !.disk = ensure_workspace_dirs(s.disk, r.ws)], r)
      [] r.op = "chat" ->
            IF r.files # <<>> /\ Head(r.files) # ""
            THEN IngestNext([s EXCEPT !.disk = ensure_workspace_dirs(s.disk, r.ws)], r)
            ELSE [s |-> [s EXCEPT !.disk = ensure_workspace_dirs(s.disk, r.ws)],
                  r |-> [r EXCEPT !.files = <<>>, !.pc = "query"]]

\* the texts of the two exceptions initialize_workspace_rag raises
ConfigError == "External storage configuration incomplete. Missing: "

BuildError == "Failed to create RAG instance for workspace "

\* ------------------------------- storage/storage_factory.py: configuration
\* the environment: each required variable unset, set to the empty string,
\* or set to a value
Unset == "<unset>"

required_vars ==
    <<"LLM_BINDING_API_KEY", "NEO4J_URI", "NEO4J_USERNAME", "NEO4J_PASSWORD", "POSTGRES_URI">>

Names(seq) == {seq[i] : i \in 1..Len(seq)}

Envs == [Names(required_vars) -> {Unset, "", "v"}]

\* `not os.getenv(var)`: None and the empty string are falsy
getenv_falsy(env, var) == env[var] = Unset \/ env[var] = ""

\* faulty variant: the loop stops at the first missing variable
RECURSIVE validate_first_failure(_, _, _)
validate_first_failure(env, rest, missing) ==
    IF rest = <<>> \/ missing # <<>> THEN missing
    ELSE validate_first_failure(env, Tail(rest),
             IF getenv_falsy(env, Head(rest)) THEN Append(missing, Head(rest)) ELSE missing)

\* validate_external_storage_config: the loop over required_vars, `missing`
\* its accumulator
RECURSIVE validate_external_storage_config(_, _, _)
validate_external_storage_config(env, rest, missing) ==
    IF rest = <<>> THEN missing
    ELSE validate_external_storage_config(env, Tail(rest),
             IF getenv_falsy(env, Head(rest)) THEN Append(missing, Head(rest)) ELSE missing)

\* ', '.join(names), a text as the sequence of its pieces
RECURSIVE join(_)
join(names) ==
    IF names = <<>> THEN <<>>
    ELSE IF Len(names) = 1 THEN names
    ELSE <<Head(names), ", ">> \o join(Tail(names))

\* initialize_workspace_rag up to its configuration check: the raised
\* HTTPException (status, detail), or status 0 when construction goes on
config_check(env) ==
    LET missing_vars == validate_external_storage_config(env, required_vars, <<>>)
    IN  IF missing_vars # <<>>
        THEN [missing |-> missing_vars, status |-> 500,
              detail |-> <<ConfigError>>
                           \o join(missing_vars)]
        ELSE [missing |-> missing_vars, status |-> 0, detail |-> <<>>]

\* --------------------- services/workspace_service.py: the engine handle
\* faulty variant: the half-built handle is left in the slot
RagFailedCaching(s, r, e) ==
    [s |-> [s EXCEPT !.cid = r.ws, !.crag = [id |-> 0, ws |-> r.ws],
                     !.docs = IF r.op = "create" THEN remove_workspace_docs(@, r.ws) ELSE @],
     r |-> Finish(r, Resp(IF r.op = "detail" THEN 404 ELSE 500, FALSE))]

\* faulty variant: the document delete runs its local cleanup although it
\* got no handle
RagFailedDroppingDocument(s, r, e) ==
    IF r.op = "delete_document"
    THEN [s |-> [s EXCEPT !.disk = rmtree_doc(s.disk, r.ws, r.doc),
                          !.docs = remove_workspace_doc(s.docs, r.ws, r.doc)],
          r |-> Finish(r, [Resp(500, FALSE) EXCEPT
                             !.detail = <<"Error deleting document: ", e>>])]
    ELSE [s |-> [s EXCEPT !.docs = IF r.op = "create" THEN remove_workspace_docs(@, r.ws)
                                   ELSE @],
          r |-> Finish([r EXCEPT !.log = IF r.op = "detail" THEN <<e>> ELSE @],
                       Resp(IF r.op = "detail" THEN 404 ELSE 500, FALSE))]

\* faulty variant: the create handler re-raises without dropping the mapping
\* entry it initialised
RagFailedKeepingDocs(s, r, e) ==
    CASE r.op = "detail" ->
            [s |-> s, r |-> Finish([r EXCEPT !.log = <<e>>], Resp(404, FALSE))]
      [] OTHER ->
            [s |-> s, r |-> Finish(r, [Resp(500, FALSE) EXCEPT !.detail = <<e>>])]

\* get_or_create_workspace_rag raised HTTPException(500, e): each handler's
\* own exception handling.  create re-raises it, upload and chat let it
\* pass, the two deletes wrap its text in their own 500, and
\* get_workspace_info prints it (log) and answers 404
RagFailed(s, r, e) ==
    CASE r.op = "create" ->
            [s |-> [s EXCEPT !.docs = remove_workspace_docs(s.docs, r.ws)],
             r |-> Finish(r, [Resp(500, FALSE) EXCEPT !.detail = <<e>>])]
      [] r.op = "detail" ->
            [s |-> s, r |-> Finish([r EXCEPT !.log = <<e>>], Resp(404, FALSE))]
      [] r.op = "delete_workspace" ->
            [s |-> s, r |-> Finish(r, [Resp(500, FALSE) EXCEPT
                                         !.detail = <<"Error deleting workspace: ", e>>])]
      [] r.op = "delete_document" ->
            [s |-> s, r |-> Finish(r, [Resp(500, FALSE) EXCEPT
                                         !.detail = <<"Error deleting document: ", e>>])]
      [] OTHER ->
            [s |-> s, r |-> Finish(r, [Resp(500, FALSE) EXCEPT !.detail = <<e>>])]

\* get_or_create_workspace_rag up to its first suspension point
get_or_create_workspace_rag(s, r, cfg_ok, suspend, del_ok) ==
    LET cached_rag == get_current_workspace_rag(s.cid, s.crag, r.ws)
    IN  IF cached_rag # None
        THEN AfterRag(s, [r EXCEPT !.rag = cached_rag], suspend, del_ok)
        ELSE IF ~cfg_ok
        THEN RagFailed(s, r, ConfigError)
        ELSE [s |-> [s EXCEPT !.disk = ensure_workspace_dirs(s.disk, r.ws)],
              r |-> [r EXCEPT !.pc = "build"]]

\* initialize_workspace_rag resumes after the awaited backend opening
initialize_workspace_rag(s, r, build_ok, suspend, del_ok) ==
    IF ~build_ok
    THEN RagFailed(s, r, BuildError)
    ELSE LET rag == [id |-> s.nh + 1, ws |-> r.ws]
             slot == set_current_workspace_rag(r.ws, rag)
         IN  AfterRag([s EXCEPT !.nh = s.nh + 1, !.cid = slot.id, !.crag = slot.rag],
                      [r EXCEPT !.rag = rag], suspend, del_ok)

\* ------------------------------------------------------------- actions
RECURSIVE PendingFiles(_)
PendingFiles(ps) ==
    IF ps = {} THEN 0
    ELSE LET q == CHOOSE x \in ps : TRUE
         IN  Len(req[q].files) + PendingFiles(ps \ {q})

\* Return only empties a slot, so it commutes with every step of the other
\* slots: a finished request is returned before anything else runs
Quiet == \A q \in Procs : req[q].pc # "done"

\* requests are anonymous: a new one takes the first free slot
FirstFree(p) == \A q \in Procs : req[q].pc = "idle" => ~(q < p)

Free(p) == Quiet /\ req[p].pc = "idle" /\ FirstFree(p) /\ arrivals < MaxRequests

\* a run of freely overlapping requests still takes a request
Open == arrivals < MaxOverlapping

\* a run of one pair of requests still takes a request
Paired == arrivals < MaxPair

At(p, pc) == Quiet /\ req[p].pc = pc

\* workspace ids are uuids, interchangeable: a request names an id already
\* met or the next one never met
Nameable == touched \cup {WsSeq[i] : i \in {Cardinality(touched) + 1} \cap (1..Len(WsSeq))}

Building == Cardinality({q \in Procs : req[q].pc = "build"})

\* the file lists a request may carry: the first file named a.pdf, any
\* further one b.pdf (two requests then upload files of the same name)
FileSeqs(lo, hi) ==
    {[i \in 1..n |-> IF i = 1 THEN "a.pdf" ELSE "b.pdf"] : n \in lo..hi}

\* the outcomes worth distinguishing: configuration is only validated on a
\* cache miss (against the process environment where the run carries one),
\* the row delete only runs when the purge does not suspend
CfgOutcomes(w) ==
    IF get_current_workspace_rag(current_workspace_id, current_workspace_rag, w) # None
    THEN {TRUE}
    ELSE IF trial.kind = "process"
    THEN {config_check(trial.env).status = 0}
    ELSE BOOLEAN

DelOutcomes(suspend) == IF suspend THEN {"raise"} ELSE {"raise", "count", "nocount"}

\* every uuid the run may still need is available
Affordable(o, files) ==
    /\ o.r.pc = "build" => nextHandle + Building < MaxHandles
    /\ nextDoc + PendingFiles(Procs) + Len(files) <= MaxDocs

Init ==
    /\ db = {}
    /\ touched = {}
    /\ disk = EmptyMap
    /\ workspace_docs = EmptyMap
    /\ current_workspace_id = NoWs
    /\ current_workspace_rag = None
    /\ nextHandle = 0
    /\ nextDoc = 0
    /\ req = [p \in Procs |-> Idle]
    /\ arrivals = 0
    /\ trial = NoTrial
    /\ removed = {}

\* POST /workspaces: create_workspace_service
CreateWorkspace(p) ==
    /\ Free(p)
    /\ \E w \in Nameable \ touched, db_ok \in BOOLEAN :
       \E cfg_ok \in CfgOutcomes(w) :
         LET s0 == [Sh EXCEPT !.db = IF db_ok THEN db \cup {w} ELSE db,
                              !.disk = ensure_workspace_dirs(disk, w),
                              !.docs = init_workspace_docs(workspace_docs, w)]
             o == get_or_create_workspace_rag(s0, Request("create", w, NoDoc, <<>>),
                                              cfg_ok, FALSE, "raise")
         IN  /\ Affordable(o, <<>>)
             /\ Commit(p, o)
             /\ touched' = touched \cup {w}
             /\ arrivals' = arrivals + 1

\* GET /workspaces/{id}: get_workspace_info
GetWorkspace(p) ==
    /\ Free(p)
    /\ \E w \in Nameable, db_ok \in BOOLEAN :
       \E cfg_ok \in CfgOutcomes(w) :
         LET r0 == Request("detail", w, NoDoc, <<>>)
             o == IF db_ok /\ db_get_workspace(db, w)
                  THEN get_or_create_workspace_rag(Sh, r0, cfg_ok, FALSE, "raise")
                  ELSE [s |-> Sh, r |-> Finish(r0, Resp(404, FALSE))]
         IN  /\ Affordable(o, <<>>)
             /\ Commit(p, o)
             /\ touched' = touched \cup {w}
             /\ arrivals' = arrivals + 1

\* DELETE /workspaces/{id}: delete_workspace_service
DeleteWorkspace(p) ==
    /\ Free(p)
    /\ \E w \in Nameable, db_ok \in BOOLEAN, suspend \in BOOLEAN :
       \E cfg_ok \in CfgOutcomes(w), del_ok \in DelOutcomes(suspend) :
         LET r0 == Request("delete_workspace", w, NoDoc, <<>>)
             o == IF db_ok /\ db_get_workspace(db, w)
                  THEN get_or_create_workspace_rag(Sh, r0, cfg_ok, suspend, del_ok)
                  ELSE [s |-> Sh, r |-> Finish(r0, Resp(404, FALSE))]
         IN  /\ Affordable(o, <<>>)
             /\ Commit(p, o)
             /\ touched' = touched \cup {w}
             /\ arrivals' = arrivals + 1

\* POST /workspaces/{id}/documents: upload_documents_service
UploadDocuments(p) ==
    /\ Free(p)
    /\ \E w \in Nameable, files \in FileSeqs(1, MaxFiles) :
       \E cfg_ok \in CfgOutcomes(w) :
         LET o == get_or_create_workspace_rag(Sh, Request("upload", w, NoDoc, files),
                                              cfg_ok, FALSE, "raise")
         IN  /\ Affordable(o, files)
             /\ Commit(p, o)
             /\ touched' = touched \cup {w}
             /\ arrivals' = arrivals + 1

\* GET /workspaces/{id}/documents: list_workspace_documents_service
ListDocuments(p) ==
    /\ Free(p)
    /\ \E w \in Nameable, db_ok \in BOOLEAN :
         LET r0 == Request("list_documents", w, NoDoc, <<>>)
             o == IF db_ok /\ db_get_workspace(db, w)
                  THEN [s |-> Sh,
                        r |-> Finish(r0, [Resp(200, TRUE) EXCEPT
                                            !.listing = list_documents(workspace_docs, w)])]
                  ELSE [s |-> Sh, r |-> Finish(r0, Resp(404, FALSE))]
         IN  /\ Commit(p, o)
             /\ touched' = touched \cup {w}
             /\ arrivals' = arrivals + 1

\* faulty variant: the mapping is not consulted
doc_in_mapping_unchecked(m, w, d) == TRUE

\* delete_workspace_document_service: `doc_id not in workspace_docs`
doc_in_mapping(m, w, d) == d \in DOMAIN get_workspace_docs(m, w)

\* DELETE /workspaces/{id}/documents/{doc_id}: delete_workspace_document_service
DeleteDocument(p) ==
    /\ Free(p)
    /\ \E w \in Nameable, d \in DocIds, db_ok \in BOOLEAN, suspend \in BOOLEAN :
       \E cfg_ok \in CfgOutcomes(w) :
         LET r0 == Request("delete_document", w, d, <<>>)
             o == IF ~(db_ok /\ db_get_workspace(db, w))
                  THEN [s |-> Sh, r |-> Finish(r0, Resp(404, FALSE))]
                  ELSE IF ~doc_in_mapping(workspace_docs, w, d)
                  THEN [s |-> Sh, r |-> Finish(r0, Resp(404, FALSE))]
                  ELSE get_or_create_workspace_rag(Sh, r0, cfg_ok, suspend, "raise")
         IN  /\ Affordable(o, <<>>)
             /\ Commit(p, o)
             /\ touched' = touched \cup {w}
             /\ arrivals' = arrivals + 1

\* the request bodies worth distinguishing: a JSON body that cannot be
\* parsed yields no field at all; a body of another content type (a
\* url-encoded form, say) may still carry a question
Bodies(attachments) ==
    [ct : {"json", "multipart"}, question : {Absent, "", "q"}, sent : attachments]
        \cup [ct : {"badjson"}, question : {Absent}, sent : {<<>>}]
        \cup [ct : {"other"}, question : {Absent, "q"}, sent : {<<>>}]

\* faulty variant: only an absent question is refused
question_missing_absent_only(question) == question = Absent

\* `not question`: None and the empty string are falsy
question_missing(question) == question \in {Absent, ""}

\* faulty variant: a JSON body's file fields are handed on
get_chat_data_json_files(body) ==
    CASE body.ct = "json" ->
            [rejected |-> FALSE, question |-> body.question, files |-> body.sent]
      [] body.ct = "multipart" ->
            [rejected |-> question_missing(body.question),
             question |-> body.question, files |-> body.sent]
      [] OTHER ->
            [rejected |-> TRUE, question |-> body.question, files |-> <<>>]

\* faulty variant: any other content type is read as a form
get_chat_data_any_type(body) ==
    CASE body.ct = "json" ->
            [rejected |-> FALSE, question |-> body.question, files |-> <<>>]
      [] body.ct = "badjson" ->
            [rejected |-> TRUE, question |-> body.question, files |-> <<>>]
      [] OTHER ->
            [rejected |-> question_missing(body.question),
             question |-> body.question, files |-> body.sent]

\* get_chat_data: the dependency's result for a request body, rejected
\* (400) or the chat_data handed to the service; a JSON body's file fields
\* are dropped
get_chat_data(body) ==
    CASE body.ct = "json" ->
            [rejected |-> FALSE, question |-> body.question, files |-> <<>>]
      [] body.ct = "multipart" ->
            [rejected |-> question_missing(body.question),
             question |-> body.question, files |-> body.sent]
      [] OTHER ->
            [rejected |-> TRUE, question |-> body.question, files |-> <<>>]

\* POST /workspaces/{id}/chat: get_chat_data, then chat_in_workspace_service,
\* for the requests whose file parts are among `attachments`
ChatWith(p, attachments) ==
    /\ Free(p)
    /\ \E w \in Nameable, body \in Bodies(attachments) :
       \E cfg_ok \in CfgOutcomes(w) :
         LET chat_data == get_chat_data(body)
             r0 == [Request("chat", w, NoDoc, chat_data.files) EXCEPT !.body = body]
             o == IF chat_data.rejected \/ question_missing(chat_data.question)
                  THEN [s |-> Sh, r |-> Finish(r0, Resp(400, FALSE))]
                  ELSE get_or_create_workspace_rag(Sh, r0, cfg_ok, FALSE, "raise")
         IN  /\ Affordable(o, o.r.files)
             /\ Commit(p, o)
             /\ touched' = touched \cup {w}
             /\ arrivals' = arrivals + 1

Chat(p) == ChatWith(p, FileSeqs(0, MaxAttachments))

\* the awaited backend opening of initialize_workspace_rag completes
Build(p) ==
    /\ At(p, "build")
    /\ \E build_ok \in BOOLEAN,
          suspend \in IF req[p].op \in {"delete_workspace", "delete_document"}
                      THEN BOOLEAN ELSE {FALSE} :
       \E del_ok \in IF req[p].op = "delete_workspace" THEN DelOutcomes(suspend) ELSE {"raise"} :
         Commit(p, initialize_workspace_rag(Sh, req[p], build_ok, suspend, del_ok))
    /\ UNCHANGED <<touched, arrivals>>

\* the awaited capability calls of delete_workspace_data complete
Purge(p) ==
    /\ At(p, "purge")
    /\ \E caps \in SimpleCaps \ {AllAbsent}, del_ok \in DelOutcomes(FALSE) :
         Commit(p, LocalWorkspaceCleanup(Sh, req[p], delete_workspace_data(caps), del_ok))
    /\ UNCHANGED <<touched, arrivals>>

\* the awaited capability calls of delete_document_everywhere complete
Cleanup(p) ==
    /\ At(p, "cleanup")
    /\ \E caps \in SimpleCaps :
         Commit(p, LocalDocCleanup(Sh, req[p], delete_document_everywhere(caps)))
    /\ UNCHANGED <<touched, arrivals>>

\* the awaited rag.process_document_complete returns or raises
Process(p) ==
    /\ At(p, "process")
    /\ \E engine_ok \in BOOLEAN :
         LET pr == process_document_with_rag(Sh, req[p].ws, req[p].cur, engine_ok)
             r1 == [req[p] EXCEPT !.out = Append(@, doc_result(req[p].cur, pr)),
                                  !.cur = NoFile]
             o == IF r1.files # <<>> THEN IngestNext(pr.s, r1)
                  ELSE IF r1.op = "upload"
                  THEN [s |-> pr.s,
                        r |-> Finish(r1, [Resp(200, TRUE) EXCEPT !.documents = r1.out])]
                  ELSE [s |-> pr.s, r |-> [r1 EXCEPT !.pc = "query"]]
         IN  Commit(p, o)
    /\ UNCHANGED <<touched, arrivals>>

\* what rag.aquery may raise, by message
EngineErrors == {"timeout", "connection refused"}

\* faulty variant: a failed query is answered as a success without message
chat_response_partial(r, result) ==
    Finish(r, [Resp(200, TRUE) EXCEPT !.answer = (result = "ok"), !.documents = r.out])

\* faulty variant: the error response carries the list of ingested documents
chat_response_listing(r, result) ==
    IF result = "ok"
    THEN Finish(r, [Resp(200, TRUE) EXCEPT !.answer = TRUE, !.documents = r.out])
    ELSE Finish(r, [Resp(500, FALSE) EXCEPT
                      !.detail = <<"Error processing chat with files: ", result>>,
                      !.documents = r.out])

\* chat_in_workspace_service after the awaited rag.aquery returned
\* (result = "ok") or raised the exception `result`
chat_response(r, result) ==
    IF result = "ok"
    THEN Finish(r, [Resp(200, TRUE) EXCEPT !.answer = TRUE, !.documents = r.out])
    ELSE Finish(r, [Resp(500, FALSE) EXCEPT
                      !.detail = <<"Error processing chat with files: ", result>>])

\* the awaited rag.aquery returns or raises
Query(p) ==
    /\ At(p, "query")
    /\ \E result \in {"ok"} \cup EngineErrors :
         Commit(p, [s |-> Sh, r |-> chat_response(req[p], result)])
    /\ UNCHANGED <<touched, arrivals>>

\* the response has been delivered; the slot takes the next request
Return(p) ==
    /\ req[p].pc = "done"
    /\ req' = [req EXCEPT ![p] = Idle]
    /\ UNCHANGED <<db, touched, disk, workspace_docs, current_workspace_id,
                   current_workspace_rag, nextHandle, nextDoc, arrivals, trial, removed>>

Next ==
    \E p \in Procs :
        \/ Open /\ CreateWorkspace(p)
        \/ Open /\ GetWorkspace(p)
        \/ Open /\ DeleteWorkspace(p)
        \/ Open /\ UploadDocuments(p)
        \/ Open /\ ListDocuments(p)
        \/ Open /\ DeleteDocument(p)
        \/ Open /\ Chat(p)
        \/ Build(p)
        \/ Purge(p)
        \/ Cleanup(p)
        \/ Process(p)
        \/ Query(p)
        \/ Return(p)

Spec == Init /\ [][Next]_vars

\* ------------------------------------------- a pair of requests on its own
\* any two requests, of any operation and on any workspace, overlapping at
\* every suspension point
NextPair ==
    \E p \in Procs :
        \/ Paired /\ CreateWorkspace(p)
        \/ Paired /\ GetWorkspace(p)
        \/ Paired /\ DeleteWorkspace(p)
        \/ Paired /\ UploadDocuments(p)
        \/ Paired /\ ListDocuments(p)
        \/ Paired /\ DeleteDocument(p)
        \/ Paired /\ Chat(p)
        \/ Build(p)
        \/ Purge(p)
        \/ Cleanup(p)
        \/ Process(p)
        \/ Query(p)
        \/ Return(p)

\* the pair arrives at a fresh process, or at one in which a create and a
\* one-file upload to the workspace it made were answered with success
\* before: the row, the directory with the saved file, the mapping entry and
\* the handle in the slot are what those two requests leave behind
InitPair ==
    \/ Init
    \/ /\ db = {WsSeq[1]}
       /\ touched = {WsSeq[1]}
       /\ disk = Put(ensure_workspace_dirs(EmptyMap, WsSeq[1]), WsSeq[1],
                     Put(EmptyMap, 1, "a.pdf"))
       /\ workspace_docs = add_workspace_doc(init_workspace_docs(EmptyMap, WsSeq[1]),
                                             WsSeq[1], 1, Path(WsSeq[1], 1, "a.pdf"))
       /\ current_workspace_id = WsSeq[1]
       /\ current_workspace_rag = [id |-> 1, ws |-> WsSeq[1]]
       /\ nextHandle = 1
       /\ nextDoc = 1
       /\ req = [p \in Procs |-> Idle]
       /\ arrivals = 0
       /\ trial = NoTrial
       /\ removed = {}

SpecPair == InitPair /\ [][NextPair]_vars

\* ------------------------------- the remote-cleanup functions on their own
\* engine handles of every shape: per category the storage object's method
\* and the handle-level fallback each absent, returning or raising
AllCaps == [1..4 -> CatCaps]

InitDelete ==
    /\ db = {}
    /\ touched = {}
    /\ disk = EmptyMap
    /\ workspace_docs = EmptyMap
    /\ current_workspace_id = NoWs
    /\ current_workspace_rag = None
    /\ nextHandle = 0
    /\ nextDoc = 0
    /\ req = [p \in Procs |-> Idle]
    /\ arrivals = 0
    /\ trial \in {Trial(kind, caps) : kind \in {"document", "workspace"}, caps \in AllCaps}
    /\ removed = {}

RunDocumentCleanup ==
    /\ trial.kind = "document"
    /\ ~trial.done
    /\ trial' = [trial EXCEPT !.out = delete_document_everywhere(trial.caps), !.done = TRUE]
    /\ UNCHANGED <<db, touched, disk, workspace_docs, current_workspace_id,
                   current_workspace_rag, nextHandle, nextDoc, req, arrivals, removed>>

RunWorkspaceCleanup ==
    /\ trial.kind = "workspace"
    /\ ~trial.done
    /\ trial' = [trial EXCEPT !.out = delete_workspace_data(trial.caps), !.done = TRUE]
    /\ UNCHANGED <<db, touched, disk, workspace_docs, current_workspace_id,
                   current_workspace_rag, nextHandle, nextDoc, req, arrivals, removed>>

NextDelete == RunDocumentCleanup \/ RunWorkspaceCleanup

SpecDelete == InitDelete /\ [][NextDelete]_vars

\* ------------------------------ configuration validation on its own
ConfigTrial(env) == [kind |-> "config", env |-> env, out |-> config_check(env), done |-> FALSE]

InitConfig ==
    /\ db = {}
    /\ touched = {}
    /\ disk = EmptyMap
    /\ workspace_docs = EmptyMap
    /\ current_workspace_id = NoWs
    /\ current_workspace_rag = None
    /\ nextHandle = 0
    /\ nextDoc = 0
    /\ req = [p \in Procs |-> Idle]
    /\ arrivals = 0
    /\ trial \in {[ConfigTrial(env) EXCEPT !.out = [missing |-> <<>>, status |-> 0, detail |-> <<>>]] :
                     env \in Envs}
    /\ removed = {}

RunConfigCheck ==
    /\ trial.kind = "config"
    /\ ~trial.done
    /\ trial' = [trial EXCEPT !.out = config_check(trial.env), !.done = TRUE]
    /\ UNCHANGED <<db, touched, disk, workspace_docs, current_workspace_id,
                   current_workspace_rag, nextHandle, nextDoc, req, arrivals, removed>>

NextConfig == RunConfigCheck

SpecConfig == InitConfig /\ [][NextConfig]_vars

\* --------------------------------------- one client, one request at a time
\* a client that creates a workspace, uploads to it (one file, or several),
\* deletes an uploaded document and then deletes the workspace, sending each
\* request once the previous one has been answered with success
AllIdle == \A q \in Procs : req[q].pc = "idle"

RoundTripCreate(p) == arrivals = 0 /\ CreateWorkspace(p)

\* the create was answered with success: its handle was built
RoundTripUpload(p) ==
    /\ arrivals = 1
    /\ AllIdle
    /\ nextHandle = 1
    /\ UploadDocuments(p)
    /\ req'[p].ws \in touched

\* the upload was answered: its files are saved
RoundTripDeleteDocument(p) ==
    /\ arrivals = 2
    /\ AllIdle
    /\ nextDoc > 0
    /\ DeleteDocument(p)
    /\ req'[p].ws \in touched
    /\ req'[p].doc \in DOMAIN get_workspace_docs(workspace_docs, req'[p].ws)

\* the document delete was answered with success: a saved document is gone
RoundTripDeleteWorkspace(p) ==
    /\ arrivals = 3
    /\ AllIdle
    /\ \A w \in touched : get_workspace_doc_count(workspace_docs, w) < nextDoc
    /\ DeleteWorkspace(p)
    /\ req'[p].ws \in touched

NextRoundTrip ==
    \E p \in Procs :
        \/ RoundTripCreate(p)
        \/ RoundTripUpload(p)
        \/ RoundTripDeleteDocument(p)
        \/ RoundTripDeleteWorkspace(p)
        \/ Build(p)
        \/ Purge(p)
        \/ Cleanup(p)
        \/ Process(p)
        \/ Return(p)

SpecRoundTrip == Init /\ [][NextRoundTrip]_vars

\* --------------- concurrent uploads and document deletes on their own
\* a workspace is created while nothing else runs; after that only uploads
\* and document deletes arrive, two at a time, interleaved at every
\* suspension point
NoCreate == \A q \in Procs : req[q].op # "create"

MappingCreate(p) == AllIdle /\ CreateWorkspace(p)

MappingUpload(p) == NoCreate /\ UploadDocuments(p)

MappingDeleteDocument(p) == NoCreate /\ DeleteDocument(p)

NextMapping ==
    \E p \in Procs :
        \/ MappingCreate(p)
        \/ MappingUpload(p)
        \/ MappingDeleteDocument(p)
        \/ Build(p)
        \/ Cleanup(p)
        \/ Process(p)
        \/ Return(p)

SpecMapping == Init /\ [][NextMapping]_vars

\* ------------------------------------------------ chat requests on their own
\* multipart bodies with up to MaxParts file parts, any of them without a
\* file name (what a form sends for a file field left empty)
MaxParts == 2

PartSeqs ==
    {[i \in 1..n |-> IF i \in named THEN (IF i = 1 THEN "a.pdf" ELSE "b.pdf") ELSE ""] :
        n \in 0..MaxParts, named \in SUBSET (1..MaxParts)}

ChatParts(p) == ChatWith(p, PartSeqs)

NextChat ==
    \E p \in Procs :
        \/ ChatParts(p)
        \/ Build(p)
        \/ Process(p)
        \/ Query(p)
        \/ Return(p)

SpecChat == Init /\ [][NextChat]_vars

\* ------------------------------------------- api/health.py on its own
\* what the awaited checks do: check_neo4j_health, check_postgres_health,
\* check_database_schema and the table query of /workspaces-table return or
\* raise; initialize_database returns True, returns False or raises
CheckOutcomes == {"returns", "raises"}

HealthInputs ==
    [neo4j : CheckOutcomes, postgres : CheckOutcomes, schema : CheckOutcomes,
     table : CheckOutcomes, db_init : {"ready", "not ready", "raises"}]

HealthEndpoints ==
    {"overview", "supabase", "neo4j", "postgres", "database-init", "workspaces-table"}

NoHealth == [http |-> 0, status |-> "none", services |-> <<>>]

\* faulty variant: the schema check is left out of the overall status
health_overview_two_checks(checks) ==
    LET neo4j_ok == checks[1] # "raises"
        postgres_ok == checks[2] # "raises"
        schema_ok == checks[3] # "raises"
        all_healthy == neo4j_ok /\ postgres_ok
    IN  [http |-> 200,
         status |-> IF all_healthy THEN "healthy" ELSE "degraded",
         services |-> <<IF neo4j_ok THEN "healthy" ELSE "unhealthy",
                        IF postgres_ok THEN "healthy" ELSE "unhealthy",
                        IF schema_ok THEN "healthy" ELSE "unhealthy">>]

\* health_overview on the gathered results (return_exceptions=True: a raised
\* exception is a result like any other); services: neo4j, supabase,
\* database_schema
health_overview(checks) ==
    LET neo4j_ok == checks[1] # "raises"
        postgres_ok == checks[2] # "raises"
        schema_ok == checks[3] # "raises"
        all_healthy == neo4j_ok /\ postgres_ok /\ schema_ok
    IN  [http |-> 200,
         status |-> IF all_healthy THEN "healthy" ELSE "degraded",
         services |-> <<IF neo4j_ok THEN "healthy" ELSE "unhealthy",
                        IF postgres_ok THEN "healthy" ELSE "unhealthy",
                        IF schema_ok THEN "healthy" ELSE "unhealthy">>]

\* supabase_health, neo4j_health, postgres_health, workspaces_table_health:
\* try the check, except Exception -> HTTPException(503)
single_health(check) ==
    IF check = "raises" THEN [NoHealth EXCEPT !.http = 503]
    ELSE [NoHealth EXCEPT !.http = 200, !.status = "healthy"]

\* database_init_health
database_init_health(db_init) ==
    CASE db_init = "raises" -> [NoHealth EXCEPT !.http = 503]
      [] db_init = "ready" -> [NoHealth EXCEPT !.http = 200, !.status = "healthy"]
      [] OTHER -> [NoHealth EXCEPT !.http = 200, !.status = "degraded"]

\* the router: which handler serves the endpoint, and the check it awaits
health_endpoint(endpoint, in) ==
    CASE endpoint = "overview" -> health_overview(<<in.neo4j, in.postgres, in.schema>>)
      [] endpoint = "supabase" -> single_health(in.postgres)
      [] endpoint = "neo4j" -> single_health(in.neo4j)
      [] endpoint = "postgres" -> single_health(in.postgres)
      [] endpoint = "database-init" -> database_init_health(in.db_init)
      [] OTHER -> single_health(in.table)

HealthTrial(endpoint, in) ==
    [kind |-> "health", endpoint |-> endpoint, in |-> in, out |-> NoHealth, done |-> FALSE]

InitHealth ==
    /\ db = {}
    /\ touched = {}
    /\ disk = EmptyMap
    /\ workspace_docs = EmptyMap
    /\ current_workspace_id = NoWs
    /\ current_workspace_rag = None
    /\ nextHandle = 0
    /\ nextDoc = 0
    /\ req = [p \in Procs |-> Idle]
    /\ arrivals = 0
    /\ trial \in {HealthTrial(endpoint, in) : endpoint \in HealthEndpoints, in \in HealthInputs}
    /\ removed = {}

RunHealth ==
    /\ trial.kind = "health"
    /\ ~trial.done
    /\ trial' = [trial EXCEPT !.out = health_endpoint(trial.endpoint, trial.in), !.done = TRUE]
    /\ UNCHANGED <<db, touched, disk, workspace_docs, current_workspace_id,
                   current_workspace_rag, nextHandle, nextDoc, req, arrivals, removed>>

NextHealth == RunHealth

SpecHealth == InitHealth /\ [][NextHealth]_vars

\* ------------------------- the process: start-up, environment, restarts
\* one client, one request at a time, against a process that is started,
\* may have its environment corrected while it runs, and may be restarted
\* (main.py lifespan -> core/startup.py); the metadata store and the
\* directories outlive the process, the mapping and the cache slot do not
CompleteEnv == [var \in Names(required_vars) |-> "v"]

ProcessEnvs ==
    {CompleteEnv,
     [CompleteEnv EXCEPT !["POSTGRES_URI"] = Unset],
     [CompleteEnv EXCEPT !["NEO4J_URI"] = "", !["NEO4J_PASSWORD"] = Unset]}

\* how the awaited initialize_database ends
DbInitOutcomes == {"ready", "not ready", "raises"}

NoStartup == [raised |-> FALSE, db_ready |-> FALSE, missing |-> <<>>]

\* startup_initialize: the database initialization inside try / except
\* Exception, then the configuration check, which prints and returns
startup_initialize(db_init, env) ==
    LET missing_vars == validate_external_storage_config(env, required_vars, <<>>)
    IN  [raised |-> FALSE, db_ready |-> (db_init = "ready"), missing |-> missing_vars]

ProcessTrial(env) == [kind |-> "process", env |-> env, up |-> FALSE, startup |-> NoStartup]

InitProcess ==
    /\ db = {}
    /\ touched = {}
    /\ disk = EmptyMap
    /\ workspace_docs = EmptyMap
    /\ current_workspace_id = NoWs
    /\ current_workspace_rag = None
    /\ nextHandle = 0
    /\ nextDoc = 0
    /\ req = [p \in Procs |-> Idle]
    /\ arrivals = 0
    /\ trial \in {ProcessTrial(env) : env \in ProcessEnvs}
    /\ removed = {}

\* the lifespan awaits startup_initialize; the service takes requests once
\* it has returned
Startup ==
    /\ ~trial.up
    /\ \E db_init \in DbInitOutcomes :
         LET result == startup_initialize(db_init, trial.env)
         IN  trial' = [trial EXCEPT !.up = ~result.raised, !.startup = result]
    /\ UNCHANGED <<db, touched, disk, workspace_docs, current_workspace_id,
                   current_workspace_rag, nextHandle, nextDoc, req, arrivals, removed>>

\* the missing variables are set in the running process
CorrectConfiguration ==
    /\ trial.up
    /\ trial.env # CompleteEnv
    /\ trial' = [trial EXCEPT !.env = CompleteEnv]
    /\ UNCHANGED <<db, touched, disk, workspace_docs, current_workspace_id,
                   current_workspace_rag, nextHandle, nextDoc, req, arrivals, removed>>

\* the process is stopped between two requests and started again: the
\* module globals of core/state.py start empty
Restart ==
    /\ trial.up
    /\ AllIdle
    /\ \E env \in ProcessEnvs : trial' = ProcessTrial(env)
    /\ workspace_docs' = EmptyMap
    /\ current_workspace_id' = clear_current_workspace.id
    /\ current_workspace_rag' = clear_current_workspace.rag
    /\ UNCHANGED <<db, touched, disk, nextHandle, nextDoc, req, arrivals, removed>>

Serving == trial.up /\ AllIdle

NextProcess ==
    \/ Startup
    \/ CorrectConfiguration
    \/ Restart
    \/ \E p \in Procs :
        \/ Serving /\ CreateWorkspace(p)
        \/ Serving /\ GetWorkspace(p)
        \/ Serving /\ DeleteWorkspace(p)
        \/ Serving /\ UploadDocuments(p)
        \/ Serving /\ ListDocuments(p)
        \/ Serving /\ DeleteDocument(p)
        \/ Serving /\ Chat(p)
        \/ Build(p)
        \/ Purge(p)
        \/ Cleanup(p)
        \/ Process(p)
        \/ Query(p)
        \/ Return(p)

SpecProcess == InitProcess /\ [][NextProcess]_vars

\* ------------------------------------ the clients' view of the service
\* the requests of the service with the listing of workspaces added, and a
\* ledger of what the clients have been told: the ids whose creation was
\* answered ok and the ids whose deletion was answered ok
ClientTrial == [kind |-> "client", created |-> {}, deleted |-> {}]

\* list_workspaces_service: the rows of the store with their document
\* counts, the empty list when the store query raises
list_workspaces_service(rows, m, db_ok) ==
    IF db_ok
    THEN {[id |-> w, document_count |-> get_workspace_doc_count(m, w)] : w \in rows}
    ELSE {}

InitClient ==
    /\ db = {}
    /\ touched = {}
    /\ disk = EmptyMap
    /\ workspace_docs = EmptyMap
    /\ current_workspace_id = NoWs
    /\ current_workspace_rag = None
    /\ nextHandle = 0
    /\ nextDoc = 0
    /\ req = [p \in Procs |-> Idle]
    /\ arrivals = 0
    /\ trial = ClientTrial
    /\ removed = {}

\* GET /workspaces: list_workspaces_service
ListWorkspaces(p) ==
    /\ Free(p)
    /\ \E db_ok \in BOOLEAN :
         Commit(p, [s |-> Sh,
                    r |-> Finish(Request("list_workspaces", NoWs, NoDoc, <<>>),
                                 [Resp(200, TRUE) EXCEPT
                                    !.listing = list_workspaces_service(db, workspace_docs,
                                                                        db_ok)])])
    /\ touched' = touched
    /\ arrivals' = arrivals + 1

\* the response is delivered and the client notes what it was told; the
\* slot takes the next request
Deliver(p) ==
    /\ req[p].pc = "done"
    /\ req' = [req EXCEPT ![p] = Idle]
    /\ trial' = [trial EXCEPT
                   !.created = IF req[p].op = "create" /\ req[p].resp.ok
                               THEN @ \cup {req[p].resp.workspace} ELSE @,
                   !.deleted = IF req[p].op = "delete_workspace" /\ req[p].resp.ok
                               THEN @ \cup {req[p].ws} ELSE @]
    /\ UNCHANGED <<db, touched, disk, workspace_docs, current_workspace_id,
                   current_workspace_rag, nextHandle, nextDoc, arrivals, removed>>

\* the id of a workspace is chosen by the store (or drawn at random) inside
\* the create handler and first told to a client in its response: no other
\* request names it while the create is in flight
Known(p) ==
    \A q \in Procs \ {p} : ~(req[q].op = "create" /\ req[q].ws = req'[p].ws)

NextClient ==
    \E p \in Procs :
        \/ Open /\ CreateWorkspace(p)
        \/ Open /\ GetWorkspace(p) /\ Known(p)
        \/ Open /\ ListWorkspaces(p)
        \/ Open /\ DeleteWorkspace(p) /\ Known(p)
        \/ Open /\ UploadDocuments(p) /\ Known(p)
        \/ Open /\ ListDocuments(p) /\ Known(p)
        \/ Open /\ DeleteDocument(p) /\ Known(p)
        \/ Build(p)
        \/ Purge(p)
        \/ Cleanup(p)
        \/ Process(p)
        \/ Deliver(p)

SpecClient == InitClient /\ [][NextClient]_vars

\* ================================================================ claims
\* a request slot takes a request in this step
Arrives(p) == req[p].pc = "idle" /\ req'[p].pc # "idle"

\* the handler answered before asking for an engine handle: failed
\* validation (400) or a failed existence check (404)
RejectedEarly(r) == r.pc = "done" /\ r.resp.status \in {400, 404} /\ r.rag = None

\* the request taken in this step got as far as get_or_create_workspace_rag
\* (listing documents never asks for a handle)
AsksForHandle(p) ==
    /\ Arrives(p)
    /\ req'[p].op # "list_documents"
    /\ ~RejectedEarly(req'[p])

\* the delete-workspace handler ran on, without suspending, to its own
\* invalidation of the slot
InvalidatedByDelete(r) ==
    /\ r.op = "delete_workspace"
    /\ r.pc = "done"
    /\ current_workspace_id' = NoWs
    /\ current_workspace_rag' = None

\* C1 -- cache reuse.  A handler that asks for the engine handle of W while
\* the slot holds (W, h) gets h itself, nothing is constructed, and the slot
\* is left as it was (only the delete-workspace handler, which invalidates
\* the slot itself further on, may then clear it).
CacheReuse ==
    [][\A p \in Procs :
         (/\ AsksForHandle(p)
          /\ current_workspace_id = req'[p].ws
          /\ current_workspace_rag # None)
         => /\ req'[p].rag = current_workspace_rag
            /\ req'[p].pc # "build"
            /\ nextHandle' = nextHandle
            /\ \/ /\ current_workspace_id' = current_workspace_id
                  /\ current_workspace_rag' = current_workspace_rag
               \/ InvalidatedByDelete(req'[p])]_vars

\* the second request of a run got the handle the first one constructed
CacheReuseWitness ==
    /\ arrivals = 2
    /\ nextHandle = 1
    /\ req[1].pc = "done"
    /\ req[1].op = "detail"
    /\ req[1].resp.status = 200
    /\ req[1].rag = [id |-> 1, ws |-> req[1].ws]
    /\ current_workspace_id = req[1].ws
    /\ current_workspace_rag = req[1].rag

\* C2 -- single-slot eviction.  A construction that completes for B yields a
\* handle never handed out before and makes the slot hold exactly (B, that
\* handle), whatever it held; a handler that then asks for A # B finds no
\* handle in the slot: it gets none before a construction of its own.
SingleSlotEviction ==
    [][\A p \in Procs :
         /\ (req[p].pc = "build" /\ req'[p].pc # "build" /\ nextHandle' # nextHandle)
            => /\ nextHandle' = nextHandle + 1
               /\ req'[p].rag = [id |-> nextHandle', ws |-> req[p].ws]
               /\ req'[p].rag # current_workspace_rag
               /\ \/ /\ current_workspace_id' = req[p].ws
                     /\ current_workspace_rag' = req'[p].rag
                  \/ InvalidatedByDelete(req'[p])
         /\ (/\ AsksForHandle(p)
             /\ current_workspace_id # req'[p].ws)
            => /\ req'[p].rag = None
               /\ req'[p].pc \in {"build", "done"}
               /\ req'[p].pc = "done" => req'[p].resp.status = 500
               /\ nextHandle' = nextHandle]_vars

\* B's construction displaced the handle of A that an upload still holds
SingleSlotEvictionWitness ==
    /\ nextHandle = 2
    /\ req[1].pc = "process"
    /\ req[1].rag = [id |-> 1, ws |-> "A"]
    /\ req[2].pc = "done"
    /\ req[2].resp.status = 200
    /\ req[2].rag = [id |-> 2, ws |-> "B"]
    /\ current_workspace_id = "B"
    /\ current_workspace_rag = req[2].rag

\* C3 -- (as stated) every workspace-scoped operation on an id with no row
\* in the metadata store answers 404 (a request failing validation with 400
\* aside).
ScopedOps == {"detail", "delete_workspace", "list_documents", "delete_document",
              "chat", "upload"}

NotFoundForUnknownWorkspace ==
    [][\A p \in Procs :
         (/\ Arrives(p)
          /\ req'[p].op \in ScopedOps
          /\ req'[p].ws \notin db
          /\ ~(req'[p].pc = "done" /\ req'[p].resp.status = 400))
         => /\ req'[p].pc = "done"
            /\ req'[p].resp.status = 404]_vars

\* C4 -- (as stated) a successful delete_document carries in its response
\* the per-category deletion result of the remote cleanup (here: its tally
\* of successful categories, 0 when all four are unsuccessful).
DeleteDocumentReturnsResult ==
    \A p \in Procs :
        (/\ req[p].pc = "done"
         /\ req[p].op = "delete_document"
         /\ req[p].resp.status = 200)
        => req[p].resp.deletion = req[p].deletion

\* C5 -- local cleanup on document delete is unconditional.  Once
\* delete_document(W, D) has passed its checks and obtained a handle, it
\* answers success with D's directory and mapping entry gone and D absent
\* from W's listing, however many remote cleanups succeeded.
LocalCleanupUnconditional ==
    \A p \in Procs :
        (/\ req[p].pc = "done"
         /\ req[p].op = "delete_document"
         /\ req[p].rag # None)
        => /\ req[p].resp.status = 200
           /\ req[p].resp.ok
           /\ req[p].doc \notin DOMAIN get_workspace_docs(workspace_docs, req[p].ws)
           /\ req[p].ws \in DOMAIN disk => req[p].doc \notin DOMAIN disk[req[p].ws]
           /\ \A e \in list_documents(workspace_docs, req[p].ws) : e.id # req[p].doc

\* a delete whose four remote cleanups all failed, answered with success
LocalCleanupUnconditionalWitness ==
    \E p \in Procs :
        /\ req[p].pc = "done"
        /\ req[p].op = "delete_document"
        /\ req[p].rag # None
        /\ req[p].deletion = 0
        /\ req[p].resp.status = 200
        /\ req[p].doc \notin DOMAIN get_workspace_docs(workspace_docs, req[p].ws)

\* C6 -- no short-circuit in remote cleanup.  In both functions each of the
\* four categories is probed on its own: its capability is invoked exactly
\* once if the handle exposes one and not at all otherwise, whatever
\* happened in the categories before it; the outcome is recorded per
\* category and no exception leaves the function.
\* the behaviour of the capability the probe of one category selects
Exposed(kind, c) ==
    IF kind = "document" /\ c.primary = "absent" THEN c.fallback ELSE c.primary

NoShortCircuit ==
    (trial.done /\ trial.kind # "none")
    => /\ ~trial.out.propagated
       /\ \A i \in 1..4 :
            LET b == Exposed(trial.kind, trial.caps[i])
            IN  /\ trial.out.calls[i] = (IF b = "absent" THEN 0 ELSE 1)
                /\ trial.out.results[i].success = (b = "ok")
                /\ (trial.out.results[i].error # NoError) = (b = "raise")

\* the first category raised, the second exposes nothing, the third was
\* still invoked and succeeded
NoShortCircuitWitness ==
    /\ trial.done
    /\ trial.kind = "document"
    /\ trial.caps[1].primary = "raise"
    /\ Exposed("document", trial.caps[2]) = "absent"
    /\ trial.caps[3].primary = "absent"
    /\ trial.caps[3].fallback = "ok"
    /\ trial.out.calls = <<1, 0, 1, 1>>
    /\ trial.out.results[3].success
    /\ trial.out.results[4].error # NoError

\* C7 -- ingestion failure does not roll back.  The step in which the
\* engine's processing call raises for a saved file reports that file with
\* status error and its id, and leaves the file's directory on disk, its
\* mapping entry and its line in the workspace's listing as they were.
\* the result entry a processing step appends
Reported(p) ==
    LET results == IF req'[p].pc = "done" THEN req'[p].resp.documents ELSE req'[p].out
    IN  results[Len(req[p].out) + 1]

OnDisk(dk, w, d) == w \in DOMAIN dk /\ d \in DOMAIN dk[w]

Listed(m, w, d) == \E e \in list_documents(m, w) : e.id = d

IngestionFailureKeepsDocument ==
    [][\A p \in Procs :
         (req[p].pc = "process" /\ req'[p] # req[p])
         => LET d == req[p].cur.id
                w == req[p].ws
            IN  /\ Reported(p).id = d
                /\ Reported(p).filename = req[p].cur.filename
                /\ Reported(p).processing_status \in {"success", "error"}
                /\ Reported(p).processing_status = "error"
                   => /\ OnDisk(disk, w, d)
                         => (OnDisk(disk', w, d) /\ disk'[w][d] = disk[w][d])
                      /\ d \in DOMAIN get_workspace_docs(workspace_docs, w)
                         => /\ d \in DOMAIN get_workspace_docs(workspace_docs', w)
                            /\ workspace_docs'[w][d] = workspace_docs[w][d]
                      /\ Listed(workspace_docs, w, d) => Listed(workspace_docs', w, d)]_vars

\* an upload answered with a failed document that is on disk and listed
IngestionFailureKeepsDocumentWitness ==
    \E p \in Procs :
        /\ req[p].pc = "done"
        /\ req[p].op = "upload"
        /\ req[p].resp.status = 200
        /\ \E i \in 1..Len(req[p].resp.documents) :
             LET e == req[p].resp.documents[i]
             IN  /\ e.processing_status = "error"
                 /\ OnDisk(disk, req[p].ws, e.id)
                 /\ e.id \in DOMAIN get_workspace_docs(workspace_docs, req[p].ws)
                 /\ Listed(workspace_docs, req[p].ws, e.id)
                 /\ basename(workspace_docs[req[p].ws][e.id]) = e.filename

\* C8 -- each file save adds exactly one entry, under a fresh id.  The step
\* that saves a file gives it an id no mapping has held, adds that one
\* entry to the workspace's mapping and changes no other entry, so the
\* listing grows by exactly one line whose filename is the uploaded one.
SaveAddsOneEntry ==
    [][nextDoc' # nextDoc
       => \E p \in Procs :
            LET w == req'[p].ws
                d == nextDoc'
                f == req'[p].cur.filename
                line == [id |-> d, path |-> Path(w, d, f), filename |-> f]
            IN  /\ req'[p].pc = "process"
                /\ req'[p].cur.id = d
                /\ d = nextDoc + 1
                /\ ~Arrives(p) => f = Head(req[p].files)
                /\ \A w2 \in DOMAIN workspace_docs : d \notin DOMAIN workspace_docs[w2]
                /\ get_workspace_docs(workspace_docs', w)
                     = Put(get_workspace_docs(workspace_docs, w), d, Path(w, d, f))
                /\ \A w2 \in (DOMAIN workspace_docs) \ {w} :
                     get_workspace_docs(workspace_docs', w2) = workspace_docs[w2]
                /\ list_documents(workspace_docs', w)
                     = list_documents(workspace_docs, w) \cup {line}
                /\ Cardinality(list_documents(workspace_docs', w))
                     = Cardinality(list_documents(workspace_docs, w)) + 1]_vars

\* two uploads of the same file name, listed as two documents
SaveAddsOneEntryWitness ==
    \E w \in WS :
        /\ nextDoc = 2
        /\ Cardinality(list_documents(workspace_docs, w)) = 2
        /\ \A e \in list_documents(workspace_docs, w) : e.filename = "a.pdf"
        /\ \A p \in Procs : req[p].pc = "idle"

\* C9 -- delete_workspace order and post-state.  A delete_workspace(W) that
\* answers success has performed, in this order, the remote purge, the
\* clearing of the slot if it holds W, the removal of W's mapping, the
\* removal of W's directory tree and last the row delete; when it returns
\* the slot does not hold W, the mapping has no entry for W and W's
\* directory does not exist.
DeleteWorkspaceOrder ==
    \A p \in Procs :
        (/\ req[p].pc = "done"
         /\ req[p].op = "delete_workspace"
         /\ req[p].resp.status = 200)
        => /\ req[p].log = <<"purge", "cache", "mapping", "directory", "row">>
           /\ current_workspace_id # req[p].ws
           /\ req[p].ws \notin DOMAIN workspace_docs
           /\ req[p].ws \notin DOMAIN disk

\* a successful delete of the workspace the slot held, purge included
DeleteWorkspaceOrderWitness ==
    \E p \in Procs :
        /\ req[p].pc = "done"
        /\ req[p].op = "delete_workspace"
        /\ req[p].resp.status = 200
        /\ req[p].rag.ws = req[p].ws
        /\ req[p].deletion > 0
        /\ req[p].db_deleted = "yes"
        /\ current_workspace_id = NoWs
        /\ nextDoc > 0

\* C10 -- (as stated) when the row delete raises or reports no row deleted,
\* delete_workspace answers ok and the row is still in the metadata store.
DbDeleteFailureKeepsRow ==
    \A p \in Procs :
        (/\ req[p].pc = "done"
         /\ req[p].op = "delete_workspace"
         /\ req[p].db_deleted \in {"raised", "no"})
        => /\ req[p].resp.ok
           /\ req[p].resp.status = 200
           /\ req[p].ws \in db

\* C10 -- (amended) when the row delete raises or reports no row deleted,
\* delete_workspace answers ok; when it raises, the metadata store is left
\* exactly as it was, so a row present until then is still found.
DbDeleteFailureTolerated ==
    [][\A p \in Procs :
         (/\ req[p].pc # "done"
          /\ req'[p].pc = "done"
          /\ req'[p].op = "delete_workspace"
          /\ req'[p].db_deleted \in {"raised", "no"})
         => /\ req'[p].resp.ok
            /\ req'[p].resp.status = 200
            /\ req'[p].db_deleted = "raised" => db' = db]_vars

\* the row delete raised, the request was answered ok, the row is still there
DbDeleteFailureToleratedWitness ==
    \E p \in Procs :
        /\ req[p].pc = "done"
        /\ req[p].op = "delete_workspace"
        /\ req[p].db_deleted = "raised"
        /\ req[p].resp.ok
        /\ req[p].ws \in db
        /\ req[p].ws \notin DOMAIN disk

\* C11 -- round trip.  When the client's fourth request, the workspace
\* delete, is answered with success (create, upload and document delete
\* having succeeded before it), nothing of the workspace is left: no
\* directory or file on disk, no document mapping, no handle in the slot.
RoundTripLeavesNothing ==
    \A p \in Procs :
        (/\ arrivals = 4
         /\ req[p].pc = "done"
         /\ req[p].resp.status = 200)
        => /\ req[p].op = "delete_workspace"
           /\ req[p].ws \notin DOMAIN disk
           /\ disk = EmptyMap
           /\ req[p].ws \notin DOMAIN workspace_docs
           /\ current_workspace_id # req[p].ws
           /\ current_workspace_rag = None

\* the round trip completed: one workspace, one handle, a document saved
\* and deleted, the row removed
RoundTripLeavesNothingWitness ==
    \E p \in Procs :
        /\ arrivals = 4
        /\ req[p].pc = "done"
        /\ req[p].op = "delete_workspace"
        /\ req[p].resp.status = 200
        /\ nextDoc = 1
        /\ nextHandle = 1
        /\ db = {}
        /\ disk = EmptyMap

\* the request is inside an awaited engine operation (ingestion or query)
InEngine == {"process", "query"}

\* C12 -- cache race across workspaces.  Nothing protects a handle in use:
\* whenever a construction for B completes while another request is still
\* in an engine operation (ingestion or query) on the slot's handle for
\* A # B, the slot passes to B and that request goes on with a handle the
\* slot no longer holds.  CacheRaceWitness is the interleaving itself.
EvictionIgnoresUsers ==
    [][\A p, q \in Procs :
         (/\ p # q
          /\ req[p].pc \in InEngine
          /\ req[p].rag # None
          /\ req[p].rag = current_workspace_rag
          /\ req[q].pc = "build"
          /\ req'[q].pc # "build"
          /\ nextHandle' # nextHandle
          /\ req[q].ws # req[p].ws)
         => /\ req'[p] = req[p]
            /\ current_workspace_rag' # req'[p].rag
            /\ current_workspace_id' # req'[p].ws
            /\ \/ current_workspace_rag' = [id |-> nextHandle', ws |-> req[q].ws]
               \/ InvalidatedByDelete(req'[q])]_vars

\* two requests only: the first built A's handle and is still using it,
\* the slot already holds the handle the second built for B
CacheRaceWitness ==
    /\ arrivals = 2
    /\ req[1].pc \in InEngine
    /\ req[1].ws = "A"
    /\ req[1].rag = [id |-> 1, ws |-> "A"]
    /\ current_workspace_id = "B"
    /\ current_workspace_rag = [id |-> 2, ws |-> "B"]

\* the ids the mappings hold
Mapped(m) == UNION {DOMAIN m[w] : w \in DOMAIN m}

\* an update is lost: the mappings do not hold exactly the ids saved so far
\* less the ids the completed deletes removed
LostUpdate == Mapped(workspace_docs) # (1..nextDoc) \ removed

\* a document delete has just completed on a workspace while an upload to
\* the same workspace is between two of its steps
Overlap ==
    \E p, q \in Procs :
        /\ req[p].op = "upload"
        /\ req[p].pc = "process"
        /\ req[q].op = "delete_document"
        /\ req[q].pc = "done"
        /\ req[q].resp.status = 200
        /\ req[q].ws = req[p].ws

ConstructionFailed(p) ==
    \/ /\ req[p].pc = "build"
       /\ req'[p].pc = "done"
       /\ nextHandle' = nextHandle
    \/ /\ AsksForHandle(p)
       /\ req'[p].pc = "done"
       /\ req'[p].resp.status = 500
       /\ req'[p].rag = None

\* C14 -- engine construction failure never caches.  A step in which the
\* construction a request asked for fails (configuration missing at the
\* check, or the awaited opening of the backends raising) leaves the slot,
\* id and handle, exactly as it was; the request gets no handle and is
\* answered with the failure (500; the detail handler turns it into 404).
ConstructionFailureNeverCaches ==
    [][\A p \in Procs :
         ConstructionFailed(p)
         => /\ current_workspace_id' = current_workspace_id
            /\ current_workspace_rag' = current_workspace_rag
            /\ req'[p].rag = None
            /\ ~req'[p].resp.ok
            /\ req'[p].resp.status = IF req'[p].op = "detail" THEN 404 ELSE 500
            /\ current_workspace_rag' # None
               => /\ current_workspace_rag'.id \in 1..nextHandle'
                  /\ current_workspace_rag'.ws = current_workspace_id']_vars

\* a request for one workspace failed for want of a handle while the slot
\* holds, untouched, the handle of another workspace
ConstructionFailureNeverCachesWitness ==
    \E p \in Procs :
        /\ req[p].pc = "done"
        /\ req[p].op \in {"upload", "chat", "create"}
        /\ req[p].resp.status = 500
        /\ req[p].rag = None
        /\ current_workspace_rag # None
        /\ current_workspace_id # req[p].ws

\* the required variables that are unset or empty
MissingSet(env) == {var \in Names(required_vars) : env[var] \in {Unset, ""}}

\* C15 -- configuration validation is complete, not first-failure.  For
\* every environment, with S the required variables that are unset or
\* empty: validation returns exactly S (in the order of the required list,
\* none twice); when S is not empty construction fails with status 500 and
\* a message naming every member of S; when S is empty validation returns
\* the empty list and the check raises nothing.
ConfigValidationComplete ==
    (trial.kind = "config" /\ trial.done)
    => LET S == MissingSet(trial.env)
           out == trial.out
       IN  /\ Names(out.missing) = S
           /\ Len(out.missing) = Cardinality(S)
           /\ S # {} => /\ out.status = 500
                         /\ \A var \in S : var \in Names(out.detail)
           /\ S = {} => /\ out.missing = <<>>
                         /\ out.status = 0

\* two variables missing, one unset and one empty, neither the first of the
\* list: both are returned and both are named
ConfigValidationCompleteWitness ==
    /\ trial.kind = "config"
    /\ trial.done
    /\ trial.env["NEO4J_URI"] = Unset
    /\ trial.env["POSTGRES_URI"] = ""
    /\ trial.out.missing = <<"NEO4J_URI", "POSTGRES_URI">>
    /\ trial.out.status = 500
    /\ trial.out.detail = <<"External storage configuration incomplete. Missing: ",
                            "NEO4J_URI", ", ", "POSTGRES_URI">>

\* C16 -- a chat request whose question is empty or absent is refused with
\* 400 on both transports (by the service for a JSON body, by the
\* dependency for a multipart form) in the step in which it arrives: no
\* handle is asked for, nothing is saved or built, and no chat request past
\* that point (so none at the engine query) is without a question.
EmptyQuestionRejected ==
    [][\A p \in Procs :
         /\ (/\ Arrives(p)
             /\ req'[p].op = "chat"
             /\ req'[p].body.ct \in {"json", "multipart"}
             /\ req'[p].body.question \in {Absent, ""})
            => /\ req'[p].pc = "done"
               /\ req'[p].resp.status = 400
               /\ ~req'[p].resp.answer
               /\ req'[p].rag = None
               /\ UNCHANGED <<disk, workspace_docs, current_workspace_id,
                              current_workspace_rag, nextHandle, nextDoc>>
         /\ (req'[p].op = "chat" /\ req'[p].pc \in {"build", "process", "query"})
            => req'[p].body.question = "q"]_vars

\* a multipart request with a file part and an empty question was refused:
\* nothing was saved
EmptyQuestionRejectedWitness ==
    \E p \in Procs :
        /\ req[p].pc = "done"
        /\ req[p].op = "chat"
        /\ req[p].body.ct = "multipart"
        /\ req[p].body.question = ""
        /\ req[p].body.sent # <<>>
        /\ req[p].resp.status = 400
        /\ nextDoc = 0
        /\ arrivals = 1

\* C17 -- JSON transport never triggers ingestion.  No step of a chat
\* request with a JSON body, whatever file fields the body holds, saves a
\* file, adds a mapping entry or reaches the engine's document processing;
\* its answer lists no document.
JsonNeverIngests ==
    [][\A p \in Procs :
         (/\ req'[p] # req[p]
          /\ req'[p].op = "chat"
          /\ req'[p].body.ct = "json")
         => /\ nextDoc' = nextDoc
            /\ workspace_docs' = workspace_docs
            /\ \A w \in DOMAIN disk : w \in DOMAIN disk' /\ disk'[w] = disk[w]
            /\ \A w \in DOMAIN disk' \ DOMAIN disk : disk'[w] = EmptyMap
            /\ req'[p].pc # "process"
            /\ req'[p].files = <<>>
            /\ req'[p].cur = NoFile
            /\ req'[p].resp.documents = <<>>]_vars

\* a JSON body holding a file field was answered, and nothing was ever saved
JsonNeverIngestsWitness ==
    \E p \in Procs :
        /\ req[p].pc = "done"
        /\ req[p].op = "chat"
        /\ req[p].body.ct = "json"
        /\ req[p].body.sent # <<>>
        /\ req[p].resp.status = 200
        /\ req[p].resp.answer
        /\ nextDoc = 0
        /\ workspace_docs = EmptyMap

\* the file parts that carry a file, and the names of the documents a
\* request has ingested so far
NamedParts(sent) == SelectSeq(sent, LAMBDA f : f # "")

IngestedNames(r) == [i \in 1..Len(r.out) |-> r.out[i].filename]

QueryFailureIsAnError ==
    [][\A p \in Procs :
         (req[p].pc = "query" /\ req'[p].pc = "done")
         => LET resp == req'[p].resp
            IN  /\ resp.status \in {200, 500}
                /\ resp.status = 200 => resp.answer /\ resp.ok /\ resp.detail = <<>>
                /\ resp.status = 500 =>
                     /\ ~resp.answer
                     /\ ~resp.ok
                     /\ resp.documents = <<>>
                     /\ Len(resp.detail) = 2
                     /\ resp.detail[2] \in EngineErrors
                /\ resp.answer <=> resp.status = 200]_vars

\* the query of a chat request raised after its attachment was ingested: the
\* caller gets the error and its message, the document stays
QueryFailureIsAnErrorWitness ==
    \E p \in Procs :
        /\ req[p].pc = "done"
        /\ req[p].op = "chat"
        /\ req[p].rag # None
        /\ req[p].resp.status = 500
        /\ req[p].resp.detail = <<"Error processing chat with files: ", "timeout">>
        /\ ~req[p].resp.answer
        /\ nextDoc = 1

\* C20 -- delete_document(W, D) for an existing workspace W whose mapping
\* does not hold D is answered 404 in the step in which it arrives and
\* changes nothing: metadata store, mapping, disk and slot are as before, no
\* handle is asked for or built and no remote cleanup capability is invoked.
UnknownDocumentNotFound ==
    [][\A p \in Procs :
         (/\ Arrives(p)
          /\ req'[p].op = "delete_document"
          /\ req'[p].ws \in db
          /\ req'[p].doc \notin DOMAIN get_workspace_docs(workspace_docs, req'[p].ws))
         => /\ req'[p].pc = "done"
            /\ req'[p].resp.status = 404
            /\ ~req'[p].resp.ok
            /\ req'[p].rag = None
            /\ req'[p].deletion = NoDeletion
            /\ req'[p].resp.deletion = NoDeletion
            /\ UNCHANGED <<db, disk, workspace_docs, current_workspace_id,
                           current_workspace_rag, nextHandle, nextDoc, removed>>]_vars

\* the workspace exists and holds a document, another id was asked for:
\* 404, and the document it holds is still mapped and on disk
UnknownDocumentNotFoundWitness ==
    \E p \in Procs :
        /\ req[p].pc = "done"
        /\ req[p].op = "delete_document"
        /\ req[p].ws \in db
        /\ req[p].resp.status = 404
        /\ req[p].doc = 2
        /\ DOMAIN get_workspace_docs(workspace_docs, req[p].ws) = {1}
        /\ req[p].ws \in DOMAIN disk
        /\ DOMAIN disk[req[p].ws] = {1}
        /\ removed = {}

\* C21 -- a chat request whose content type is neither JSON nor multipart
\* is refused with 400 whatever its question, and so is a JSON request
\* whose body cannot be parsed; both in the step in which they arrive: no
\* engine handle is looked up or built and no shared state changes.
UnsupportedTransportRejected ==
    [][\A p \in Procs :
         (/\ Arrives(p)
          /\ req'[p].op = "chat"
          /\ req'[p].body.ct \in {"badjson", "other"})
         => /\ req'[p].pc = "done"
            /\ req'[p].resp.status = 400
            /\ ~req'[p].resp.ok
            /\ ~req'[p].resp.answer
            /\ req'[p].rag = None
            /\ UNCHANGED <<db, disk, workspace_docs, current_workspace_id,
                           current_workspace_rag, nextHandle, nextDoc, removed>>]_vars

\* a request of another content type that does carry a question was
\* refused while the slot held a handle, which is still there
UnsupportedTransportRejectedWitness ==
    \E p \in Procs :
        /\ req[p].pc = "done"
        /\ req[p].op = "chat"
        /\ req[p].body.ct = "other"
        /\ req[p].body.question = "q"
        /\ req[p].resp.status = 400
        /\ current_workspace_id = req[p].ws
        /\ current_workspace_rag = [id |-> 1, ws |-> req[p].ws]

\* the check an individual health endpoint awaits raised
OwnCheckRaised(endpoint, in) ==
    CASE endpoint \in {"supabase", "postgres"} -> in.postgres = "raises"
      [] endpoint = "neo4j" -> in.neo4j = "raises"
      [] endpoint = "database-init" -> in.db_init = "raises"
      [] OTHER -> in.table = "raises"

\* C22 -- the health overview always answers 200: status healthy exactly
\* when the graph check, the relational check and the schema check all
\* succeeded, degraded otherwise, each service marked by its own check
\* alone; every individual health endpoint answers 503 exactly when the
\* check it awaits raised, and 200 otherwise.
HealthReportsOwnChecks ==
    (trial.kind = "health" /\ trial.done)
    => LET in == trial.in
           out == trial.out
       IN  IF trial.endpoint = "overview"
           THEN /\ out.http = 200
                /\ out.status \in {"healthy", "degraded"}
                /\ out.status = "healthy"
                     <=> (in.neo4j = "returns" /\ in.postgres = "returns"
                            /\ in.schema = "returns")
                /\ out.services[1] = (IF in.neo4j = "returns" THEN "healthy" ELSE "unhealthy")
                /\ out.services[2] = (IF in.postgres = "returns" THEN "healthy" ELSE "unhealthy")
                /\ out.services[3] = (IF in.schema = "returns" THEN "healthy" ELSE "unhealthy")
           ELSE /\ out.http \in {200, 503}
                /\ out.http = 503 <=> OwnCheckRaised(trial.endpoint, in)

\* only the schema check raised: the overview answers, degraded, with the
\* two other services healthy
HealthReportsOwnChecksWitness ==
    /\ trial.kind = "health"
    /\ trial.done
    /\ trial.endpoint = "overview"
    /\ trial.in.schema = "raises"
    /\ trial.in.neo4j = "returns"
    /\ trial.in.postgres = "returns"
    /\ trial.out = [http |-> 200, status |-> "degraded",
                    services |-> <<"healthy", "healthy", "unhealthy">>]

\* C24 -- Cache slot pairing: in every reachable state, under every
\* interleaving of requests, the cached workspace id and the cached handle
\* are both present or both absent; a present handle was constructed for
\* exactly the cached id; and a lookup with any other id is a miss (no
\* handle), never another workspace's handle.
CacheSlotPaired ==
    /\ (current_workspace_id = NoWs) <=> (current_workspace_rag = None)
    /\ current_workspace_rag # None =>
         /\ current_workspace_rag.ws = current_workspace_id
         /\ current_workspace_rag.id \in 1..nextHandle
    /\ \A w \in (WS \cup {NoWs}) \ {current_workspace_id} :
         get_current_workspace_rag(current_workspace_id, current_workspace_rag, w) = None

\* the slot holds one workspace's handle while a request for another
\* workspace is constructing and a third still works with an evicted handle
CacheSlotPairedWitness ==
    /\ current_workspace_rag # None
    /\ current_workspace_rag.ws = current_workspace_id
    /\ \E p, q \in Procs :
         /\ req[p].pc = "build" /\ req[p].ws # current_workspace_id
         /\ req[q].rag # None /\ req[q].rag.ws # current_workspace_id
         /\ req[q].pc \notin {"idle", "done"}

\* the delete-workspace handler of slot p runs its local cleanup in this step
Invalidates(p) ==
    /\ req[p].pc \in {"idle", "build", "purge"}
    /\ req'[p].pc = "done"
    /\ req'[p].op = "delete_workspace"
    /\ req'[p].resp.status = 200

\* C25 -- Invalidation is keyed.  When delete_workspace(W) reaches its
\* invalidation the slot is cleared if and only if it holds W at that
\* moment: after a suspended remote cleanup a slot that is empty or holds
\* another workspace is left exactly as it is, under every interleaving;
\* a handler that ran on without suspending finds W's handle (the one it
\* just obtained) and clears it.
InvalidationKeyed ==
    [][\A p \in Procs :
         Invalidates(p)
         => IF req[p].pc = "purge" /\ current_workspace_id # req[p].ws
            THEN UNCHANGED <<current_workspace_id, current_workspace_rag>>
            ELSE current_workspace_id' = NoWs /\ current_workspace_rag' = None]_vars

\* delete_workspace(W) answered success while the slot still holds the
\* handle another request built for B during W's remote cleanup
InvalidationKeyedWitness ==
    \E p \in Procs :
        /\ req[p].pc = "done"
        /\ req[p].op = "delete_workspace"
        /\ req[p].resp.status = 200
        /\ req[p].rag # None
        /\ current_workspace_rag # None
        /\ current_workspace_id # req[p].ws
        /\ current_workspace_rag.id > req[p].rag.id

\* a capability for the category is present: the storage object's method
\* or, for a document, the handle-level fallback
CapabilityPresent(kind, c) ==
    c.primary # "absent" \/ (kind = "document" /\ c.fallback # "absent")

\* how the invocation of the category's capability ends
Invocation(kind, c) ==
    IF c.primary # "absent" THEN c.primary
    ELSE IF kind = "document" THEN c.fallback
    ELSE "absent"

\* C26 -- Deletion result record.  For delete_document_everywhere and
\* delete_workspace_data and every combination of per-category behaviour,
\* a category's success flag is true exactly when a capability for it was
\* present and its invocation returned; its error is non-null exactly when
\* the invocation raised; a category without capability has success false
\* and error null.
DeletionRecordExact ==
    (trial.done /\ trial.kind \in {"document", "workspace"})
    => \A i \in 1..4 :
         LET c == trial.caps[i]
             present == CapabilityPresent(trial.kind, c)
             rec == trial.out.results[i]
         IN  /\ rec.success <=> (present /\ Invocation(trial.kind, c) = "ok")
             /\ (rec.error # NoError) <=> (present /\ Invocation(trial.kind, c) = "raise")
             /\ ~present => rec = [success |-> FALSE, error |-> NoError]
             /\ ~(rec.success /\ rec.error # NoError)

\* a workspace cleanup over a handle with one category of each behaviour:
\* only a handle-level method (no capability), a raising one, a returning
\* one, and nothing at all
DeletionRecordExactWitness ==
    /\ trial.done
    /\ trial.kind = "workspace"
    /\ trial.caps[1] = [primary |-> "absent", fallback |-> "ok"]
    /\ trial.caps[2].primary = "raise"
    /\ trial.caps[3].primary = "ok"
    /\ trial.caps[4] = [primary |-> "absent", fallback |-> "absent"]
    /\ trial.out.results = <<[success |-> FALSE, error |-> NoError],
                             [success |-> FALSE, error |-> "error"],
                             [success |-> TRUE, error |-> NoError],
                             [success |-> FALSE, error |-> NoError]>>

\* the request arriving in slot p is one the handler refuses at its boundary:
\* a chat without question, or a delete-workspace, list-documents or
\* delete-document request naming a workspace without row
RefusedAtBoundary(p) ==
    /\ Arrives(p)
    /\ \/ /\ req'[p].op = "chat"
          /\ req'[p].body.ct \in {"json", "multipart"}
          /\ req'[p].body.question \in {Absent, ""}
       \/ /\ req'[p].op \in {"delete_workspace", "list_documents", "delete_document"}
          /\ req'[p].ws \notin db

\* C28 -- Validation and not-found failures change nothing.  A chat request
\* refused for an empty question (400) and a delete-workspace,
\* list-documents or delete-document request refused because the workspace
\* has no row (404) are answered before any engine handle is looked up or
\* built: the cache slot, the document mapping and the directories on disk
\* are exactly as before the request.
RejectionChangesNothing ==
    [][\A p \in Procs :
         RefusedAtBoundary(p)
         => /\ req'[p].pc = "done"
            /\ req'[p].resp.status = (IF req'[p].op = "chat" THEN 400 ELSE 404)
            /\ ~req'[p].resp.ok
            /\ req'[p].rag = None
            /\ req'[p].log = <<>>
            /\ UNCHANGED <<current_workspace_id, current_workspace_rag, workspace_docs,
                           disk, db, nextHandle, nextDoc, removed>>]_vars

\* with a handle cached and a document saved for A, a delete-workspace
\* request for an id without row was answered 404
RejectionChangesNothingWitness ==
    \E p \in Procs :
        /\ req[p].pc = "done"
        /\ req[p].op = "delete_workspace"
        /\ req[p].ws \notin db
        /\ req[p].resp.status = 404
        /\ current_workspace_rag # None
        /\ current_workspace_id # req[p].ws
        /\ get_workspace_doc_count(workspace_docs, current_workspace_id) > 0
        /\ current_workspace_id \in DOMAIN disk

\* C29 -- (as stated) two get_or_create_workspace_rag calls for the same
\* workspace that overlap in time return the identical handle, and at most
\* one engine handle is constructed for that workspace while no other
\* workspace is requested: whenever the only two requests so far are both
\* in flight for the one workspace ever named and both hold a handle, it is
\* the same handle and no second one was built.
OverlappingCallsShareHandle ==
    \A p, q \in Procs :
        (/\ p # q
         /\ arrivals = 2
         /\ req[p].ws # NoWs
         /\ req[p].ws = req[q].ws
         /\ touched = {req[p].ws}
         /\ req[p].rag # None
         /\ req[q].rag # None)
        => /\ req[p].rag = req[q].rag
           /\ nextHandle <= 1

\* the process environment lacks a required variable
ConfigurationMissing == config_check(trial.env).status # 0

\* the operations whose handlers call get_or_create_workspace_rag
HandleOps == {"create", "detail", "delete_workspace", "delete_document", "upload", "chat"}

\* the request taken in this step got past its handler's own checks, as far
\* as get_or_create_workspace_rag
ReachedHandle(p) ==
    /\ Arrives(p)
    /\ req'[p].op \in HandleOps
    /\ ~(/\ req'[p].pc = "done"
         /\ req'[p].resp.status \in {400, 404}
         /\ req'[p].rag = None
         /\ req'[p].log = <<>>)

\* C23 -- (as stated) start-up never aborts the service: startup_initialize
\* returns without raising whether the database initialization fails or
\* required configuration is missing; while configuration is missing every
\* operation that needs an engine handle fails with the configuration
\* error; once the configuration is corrected no construction is refused
\* for it any more (it is validated anew on each construction).
StartupDegradesGracefully ==
    [][/\ (~trial.up /\ trial' # trial)
          => (trial'.up /\ ~trial'.startup.raised)
       /\ \A p \in Procs :
            /\ (ReachedHandle(p) /\ ConfigurationMissing)
               => /\ req'[p].pc = "done"
                  /\ ~req'[p].resp.ok
                  /\ ConfigError \in Names(req'[p].resp.detail)
            /\ (ReachedHandle(p) /\ ~ConfigurationMissing)
               => /\ ConfigError \notin Names(req'[p].resp.detail)
                  /\ ConfigError \notin Names(req'[p].log)]_vars

\* the documents whose upload directory under W holds a file
Surviving(dk, w) ==
    IF w \in DOMAIN dk THEN {d \in DOMAIN dk[w] : dk[w][d] # ""} ELSE {}

\* C27 -- (as stated) the in-memory document mapping of a workspace is
\* rebuilt from its upload directories at start-up or when the workspace is
\* accessed: once get_workspace_info has answered for an existing workspace
\* (after a restart and start-up as much as before), the mapping holds
\* exactly the non-empty document directories under the workspace's uploads
\* directory and each of them is listed.
MappingRebuiltOnAccess ==
    [][\A p \in Procs :
         (/\ req[p].pc # "done"
          /\ req'[p].pc = "done"
          /\ req'[p].op = "detail"
          /\ req'[p].resp.status = 200)
         => /\ DOMAIN get_workspace_docs(workspace_docs', req'[p].ws)
                 = Surviving(disk', req'[p].ws)
            /\ {e.id : e \in list_documents(workspace_docs', req'[p].ws)}
                 = Surviving(disk', req'[p].ws)]_vars

\* C30 -- (as stated) delete_workspace(W) leaves the cached handle of any
\* other workspace untouched: with no other request in flight, no step of
\* a delete_workspace(W) handler changes a slot that holds (A, h) with
\* A # W, so the slot still holds (A, h) when the handler returns.
DeleteKeepsOtherHandle ==
    [][\A p \in Procs :
         (/\ req[p].pc # "done"
          /\ req'[p] # req[p]
          /\ req'[p].op = "delete_workspace"
          /\ \A q \in Procs \ {p} : req[q].pc = "idle"
          /\ current_workspace_rag # None
          /\ current_workspace_id # req'[p].ws)
         => UNCHANGED <<current_workspace_id, current_workspace_rag>>]_vars

\* the handler of slot p answers in this step
Answers(p) == req[p].pc # "done" /\ req'[p].pc = "done"

\* C32 -- (as stated) a workspace that exists in the metadata store is
\* never reported as not found by the workspace-detail operation:
\* get_workspace_info either returns the workspace or fails with an error
\* other than 404, also when the engine construction for it fails.
DetailNeverHidesExisting ==
    [][\A p \in Procs :
         (/\ Answers(p)
          /\ req'[p].op = "detail"
          /\ req'[p].ws \in db)
         => req'[p].resp.status # 404]_vars

\* C33 -- (as stated) workspace creation is all-or-nothing for durable
\* state: when create_workspace fails, neither a metadata-store row nor a
\* directory on disk remains for the id it attempted.
CreateAllOrNothing ==
    [][\A p \in Procs :
         (/\ Answers(p)
          /\ req'[p].op = "create"
          /\ ~req'[p].resp.ok)
         => /\ req'[p].ws \notin db'
            /\ req'[p].ws \notin DOMAIN disk']_vars

\* C34 -- when create_workspace fails after its id was chosen, the document
\* mapping has no entry for that id when the handler answers, and the cache
\* slot holds the id only with a handle whose construction succeeded (the
\* failed construction itself caches nothing).
FailedCreateLeavesNoMapping ==
    [][\A p \in Procs :
         (/\ Answers(p)
          /\ req'[p].op = "create"
          /\ ~req'[p].resp.ok)
         => /\ req'[p].ws \notin DOMAIN workspace_docs'
            /\ req'[p].rag = None
            /\ current_workspace_id' = req'[p].ws
               => /\ current_workspace_rag' = current_workspace_rag
                  /\ current_workspace_rag.id \in 1..nextHandle]_vars

\* a create that failed at construction: its directory is on disk, its
\* mapping entry is gone and the slot holds nothing
FailedCreateLeavesNoMappingWitness ==
    \E p \in Procs :
        /\ req[p].pc = "done"
        /\ req[p].op = "create"
        /\ req[p].resp.status = 500
        /\ req[p].resp.detail = <<BuildError>>
        /\ req[p].ws \in DOMAIN disk
        /\ req[p].ws \notin DOMAIN workspace_docs
        /\ current_workspace_id = NoWs

\* C36 -- when the engine handle cannot be obtained during
\* delete_document(W, D), the existence checks having passed, the request
\* is answered 500 in that step, no remote cleanup is attempted, and the
\* directories, the mapping and the cache slot are left as they are: D's
\* directory and mapping entry stay and D is still listed.
DeleteDocumentNeedsHandle ==
    [][\A p \in Procs :
         (/\ Answers(p)
          /\ req'[p].op = "delete_document"
          /\ req'[p].rag = None
          /\ ~RejectedEarly(req'[p]))
         => /\ req'[p].resp.status = 500
            /\ ~req'[p].resp.ok
            /\ req'[p].deletion = NoDeletion
            /\ req'[p].resp.deletion = NoDeletion
            /\ UNCHANGED <<disk, workspace_docs, removed, current_workspace_id,
                           current_workspace_rag, nextHandle>>
            /\ Listed(workspace_docs, req'[p].ws, req'[p].doc)
               => Listed(workspace_docs', req'[p].ws, req'[p].doc)
            /\ req[p].pc = "idle"
               => /\ Listed(workspace_docs', req'[p].ws, req'[p].doc)
                  /\ OnDisk(disk', req'[p].ws, req'[p].doc)]_vars

\* a document delete refused for a failed construction: D is on disk and
\* still listed
DeleteDocumentNeedsHandleWitness ==
    \E p \in Procs :
        /\ req[p].pc = "done"
        /\ req[p].op = "delete_document"
        /\ req[p].resp.status = 500
        /\ req[p].resp.detail = <<"Error deleting document: ", BuildError>>
        /\ req[p].rag = None
        /\ OnDisk(disk, req[p].ws, req[p].doc)
        /\ Listed(workspace_docs, req[p].ws, req[p].doc)

\* the files of an upload in arrival order: the first is a.pdf, each
\* further one b.pdf
ArrivalName(i) == IF i = 1 THEN "a.pdf" ELSE "b.pdf"

\* C37 -- in a multi-file upload an engine failure on one file does not
\* stop the loop.  Whatever the engine did with the current file, the step
\* appends that file's own entry (its id, its name, success or error) and
\* either saves and maps the next file or, after the last one, answers
\* 200 / ok with exactly one entry per file in arrival order, also when
\* every file failed.
UploadLoopContinues ==
    [][\A p \in Procs :
         (/\ req[p].pc = "process"
          /\ req[p].op = "upload"
          /\ req'[p] # req[p])
         => LET n == Len(req[p].out)
                results == IF req'[p].pc = "done" THEN req'[p].resp.documents
                           ELSE req'[p].out
            IN  /\ Len(results) = n + 1
                /\ \A i \in 1..n : results[i] = req[p].out[i]
                /\ results[n + 1].id = req[p].cur.id
                /\ \A i \in 1..(n + 1) : results[i].filename = ArrivalName(i)
                /\ \A i, j \in 1..(n + 1) : i < j => results[i].id < results[j].id
                /\ IF req[p].files # <<>>
                   THEN /\ req'[p].pc = "process"
                        /\ req'[p].files = Tail(req[p].files)
                        /\ nextDoc' = nextDoc + 1
                        /\ req'[p].cur = [id |-> nextDoc', filename |-> Head(req[p].files)]
                        /\ OnDisk(disk', req[p].ws, nextDoc')
                        /\ Listed(workspace_docs', req[p].ws, nextDoc')
                   ELSE /\ req'[p].pc = "done"
                        /\ req'[p].resp.status = 200
                        /\ req'[p].resp.ok
                        /\ nextDoc' = nextDoc]_vars

\* an upload of two files answered ok with both files failed, both on disk
\* and listed
UploadLoopContinuesWitness ==
    \E p \in Procs :
        /\ req[p].pc = "done"
        /\ req[p].op = "upload"
        /\ req[p].resp.ok
        /\ Len(req[p].resp.documents) = 2
        /\ \A i \in 1..2 :
             /\ req[p].resp.documents[i].processing_status = "error"
             /\ req[p].resp.documents[i].filename = ArrivalName(i)
             /\ OnDisk(disk, req[p].ws, req[p].resp.documents[i].id)
             /\ Listed(workspace_docs, req[p].ws, req[p].resp.documents[i].id)

\* C38 -- two concurrent delete_document requests for the same (W, D) that
\* both passed the presence check before either cleaned up both answer
\* success without error: the one whose local cleanup comes later finds D's
\* directory and mapping entry gone, its removals change nothing, and D is
\* absent from the mapping and from disk afterwards.
DoubleDeleteBothSucceed ==
    [][\A p \in Procs :
         (/\ Answers(p)
          /\ req[p].pc \in {"build", "cleanup"}
          /\ req'[p].op = "delete_document"
          /\ req'[p].rag # None)
         => /\ req'[p].resp.status = 200
            /\ req'[p].resp.ok
            /\ req'[p].resp.detail = <<>>
            /\ ~OnDisk(disk', req[p].ws, req[p].doc)
            /\ ~doc_in_mapping(workspace_docs', req[p].ws, req[p].doc)
            /\ (/\ req[p].doc \in removed
                /\ ~OnDisk(disk, req[p].ws, req[p].doc)
                /\ ~doc_in_mapping(workspace_docs, req[p].ws, req[p].doc))
               => /\ workspace_docs' = workspace_docs
                  /\ disk' = ensure_workspace_dirs(disk, req[p].ws)
                  /\ removed' = removed]_vars

\* the first of two deletes of the same document has answered success and
\* D is gone; the second, past the presence check as well, has its local
\* cleanup still to come
DoubleDeleteBothSucceedWitness ==
    \E p, q \in Procs :
        /\ p # q
        /\ req[p].pc = "done"
        /\ req[p].op = "delete_document"
        /\ req[p].resp.status = 200
        /\ req[q].pc = "cleanup"
        /\ req[q].op = "delete_document"
        /\ req[q].ws = req[p].ws
        /\ req[q].doc = req[p].doc
        /\ req[p].doc \in removed
        /\ ~OnDisk(disk, req[p].ws, req[p].doc)
        /\ ~doc_in_mapping(workspace_docs, req[p].ws, req[p].doc)

\* C39 -- a chat request that fails at the query step does not undo the
\* ingestion done earlier in the same request: the failing step leaves the
\* directories and the document mapping as they are, so every attachment
\* saved and mapped before it stays on disk and listed, while the response
\* is an error that carries no list of uploaded documents.
QueryFailureKeepsIngestion ==
    [][\A p \in Procs :
         (/\ req[p].pc = "query"
          /\ Answers(p)
          /\ req'[p].resp.status # 200)
         => /\ UNCHANGED <<disk, workspace_docs, nextDoc, removed>>
            /\ req'[p].resp.documents = <<>>
            /\ ~req'[p].resp.ok
            /\ \A i \in 1..Len(req[p].out) :
                 LET d == req[p].out[i].id
                 IN  /\ OnDisk(disk, req[p].ws, d) => OnDisk(disk', req[p].ws, d)
                     /\ Listed(workspace_docs, req[p].ws, d)
                        => Listed(workspace_docs', req[p].ws, d)]_vars

\* the only request so far, a chat with an attachment, failed at the
\* query: its attachment is on disk and listed, the response names none
QueryFailureKeepsIngestionWitness ==
    \E p \in Procs :
        /\ arrivals = 1
        /\ req[p].pc = "done"
        /\ req[p].op = "chat"
        /\ req[p].resp.status = 500
        /\ req[p].resp.documents = <<>>
        /\ req[p].body.sent # <<>>
        /\ nextDoc = 1
        /\ OnDisk(disk, req[p].ws, 1)
        /\ Listed(workspace_docs, req[p].ws, 1)

\* some state of workspace w exists: a mapping entry, a directory, or the
\* cache slot holding it
HasState(w) ==
    \/ w \in DOMAIN workspace_docs
    \/ w \in DOMAIN disk
    \/ current_workspace_id = w

\* C31 -- (as stated) once delete_workspace(W) has been answered success
\* and the row of W is gone, no state for W ever exists again, whatever
\* requests for W were in flight or arrive afterwards: the mapping has no
\* entry for W, W's directory does not exist and the slot does not hold W.
NoStateAfterDelete ==
    \A w \in trial.deleted : w \notin db => ~HasState(w)

\* C35 -- (as stated) every workspace whose creation was answered ok is
\* found afterwards: before any delete of W, get detail, list documents and
\* delete workspace for W are not answered 404, also when the store insert
\* had failed and the id was generated locally.
CreatedIsFound ==
    [][\A p \in Procs :
         (/\ Answers(p)
          /\ req'[p].op \in {"detail", "list_documents", "delete_workspace"}
          /\ req'[p].ws \in trial.created
          /\ req'[p].ws \notin trial.deleted
          /\ \A q \in Procs \ {p} :
               ~(req[q].op = "delete_workspace" /\ req[q].ws = req'[p].ws))
         => req'[p].resp.status # 404]_vars

\* C40 -- read operations and the cache.  Listing workspaces and listing
\* documents never change the cache slot or the document mapping; a
\* workspace detail answered for an existing W leaves the mapping as it is
\* and makes W the cached workspace with the handle it obtained, whatever
\* the slot held before.
ReadsAndTheCache ==
    [][\A p \in Procs :
         /\ (Arrives(p) /\ req'[p].op \in {"list_workspaces", "list_documents"})
            => /\ req'[p].pc = "done"
               /\ req'[p].rag = None
               /\ UNCHANGED <<current_workspace_id, current_workspace_rag, workspace_docs,
                              nextHandle, disk, db>>
         /\ (req'[p].op = "detail" /\ req'[p] # req[p])
            => workspace_docs' = workspace_docs
         /\ (Answers(p) /\ req'[p].op = "detail" /\ req'[p].resp.status = 200)
            => /\ req'[p].resp.workspace = req'[p].ws
               /\ current_workspace_id' = req'[p].ws
               /\ current_workspace_rag' = req'[p].rag
               /\ current_workspace_rag'.ws = req'[p].ws]_vars

\* a detail answered for A while the slot held B's handle: the slot now
\* holds the handle built for A
ReadsAndTheCacheWitness ==
    \E p \in Procs :
        /\ req[p].pc = "done"
        /\ req[p].op = "detail"
        /\ req[p].resp.status = 200
        /\ current_workspace_id = req[p].ws
        /\ current_workspace_rag = req[p].rag
        /\ req[p].rag.id = nextHandle
        /\ nextHandle >= 3
        /\ trial.created # {}
        /\ trial.created \subseteq db
        /\ req[p].ws \in trial.created
        /\ Cardinality(trial.created) = 2

====
